---- MODULE Spec2Model ----
(***************************************************************************)
(* Position animation and track-following engine of the subway map         *)
(* (SubwayMap component): reconciliation of snapshot batches into the      *)
(* animation store, and the frame producer that samples it.                *)
(*                                                                         *)
(* Numbers.  Coordinates are IEEE doubles in degrees in the source; here   *)
(* they are fixed-point integers in micro-degrees (1 unit = 0.000001       *)
(* degree), so 0.02 is 20000, 0.005 is 5000, 0.00001 is 10 and 0.000001 is *)
(* 1.  Interpolated values are rounded down to that grid.  A comparison    *)
(* of a distance with a threshold is done on the squares, which is exact.  *)
(* Fractions (progress, eased progress, the offset t of a projection) are  *)
(* kept exactly as pairs <<numerator, denominator>>.  Times are in ms.     *)
(***************************************************************************)
EXTENDS Integers, Sequences, FiniteSets, TLC

\* ------------------------------------------------------------------ bounds
MaxTime == 6000
MaxBatches == 4

\* ------------------------------------------------------- program constants
ANIMATION_DURATION == 4000
SnapThreshold == 20000
MoveEpsilon == 10
SameEpsilon == 1
PathProximity == 5000

\* ------------------------------------------------------------- arithmetic
Abs(n) == IF n < 0 THEN -n ELSE n

Min(a, b) == IF a < b THEN a ELSE b

Max(a, b) == IF a > b THEN a ELSE b

\* const x = value; Body(x)
With(value, Body(_)) == CHOOSE r \in {Body(x) : x \in {value}} : TRUE

RECURSIVE GCD(_, _)
GCD(a, b) == IF b = 0 THEN a ELSE With(a % b, LAMBDA r : GCD(b, r))

\* the fraction n/d (d > 0, n >= 0) in lowest terms
Frac(n, d) ==
  With(GCD(n, d), LAMBDA g :
    IF g = 0 THEN <<0, 1>> ELSE <<n \div g, d \div g>>)

RECURSIVE SqrtSearch(_, _, _)
SqrtSearch(n, lo, hi) ==
  IF lo >= hi THEN lo
  ELSE With((lo + hi + 1) \div 2, LAMBDA mid :
         IF mid * mid <= n THEN SqrtSearch(n, mid, hi)
         ELSE SqrtSearch(n, lo, mid - 1))

\* Math.sqrt, rounded down to the grid
ISqrt(n) == SqrtSearch(n, 0, 46340)

\* dx*dx + dy*dy of distance(a, b)
Dist2(a, b) ==
  LET dx == a[1] - b[1]
      dy == a[2] - b[2]
  IN dx * dx + dy * dy

distance(a, b) == ISqrt(Dist2(a, b))

\* a + (b - a) * f for a fraction f, one coordinate
Mix(a, b, f) == a + ((b - a) * f[1]) \div f[2]

\* the same on both coordinates
Lerp(p, q, f) == <<Mix(p[1], q[1], f), Mix(p[2], q[2], f)>>

\* Math.min(elapsed / ANIMATION_DURATION, 1)
Progress(elapsed) ==
  IF elapsed >= ANIMATION_DURATION THEN <<1, 1>>
  ELSE Frac(elapsed, ANIMATION_DURATION)

\* Mutant of easeOutCubic: no easing
easeLinear(t) == t

easeOutCubic(t) ==
  LET r == t[2] - t[1]
      d3 == t[2] * t[2] * t[2]
  IN Frac(d3 - r * r * r, d3)

\* --------------------------------------------------------------- geometry
\* A polyline is a sequence of points; the source indexes it from 0, so
\* vertex i of the source is line[i + 1] here.
Vertex(line, i) == line[i + 1]

\* Mutant of SegmentT: t is not clamped
SegmentTUnclamped(point, a, b) ==
  LET abx == b[1] - a[1]
      aby == b[2] - a[2]
      abLen2 == abx * abx + aby * aby
      dot == (point[1] - a[1]) * abx + (point[2] - a[2]) * aby
      g == GCD(Abs(dot), abLen2)
  IN IF abLen2 > 0 THEN <<dot \div g, abLen2 \div g>> ELSE <<0, 1>>

\* t of nearestPointOnLine for the segment from a to b: the projection of
\* point, clamped to [0, 1]
SegmentT(point, a, b) ==
  LET abx == b[1] - a[1]
      aby == b[2] - a[2]
      abLen2 == abx * abx + aby * aby
      dot == (point[1] - a[1]) * abx + (point[2] - a[2]) * aby
  IN IF abLen2 > 0 THEN Frac(Max(0, Min(abLen2, dot)), abLen2) ELSE <<0, 1>>

\* [projX, projY] = a + t * (b - a)
SegmentPoint(a, b, t) ==
  <<a[1] + (t[1] * (b[1] - a[1])) \div t[2],
    a[2] + (t[1] * (b[2] - a[2])) \div t[2]>>

\* One iteration of the loop of nearestPointOnLine: segment i against the
\* best so far.  best.d2 = -1 stands for nearestDist = Infinity.
NearestStep(point, line, i, best) ==
  With(SegmentT(point, Vertex(line, i), Vertex(line, i + 1)), LAMBDA t :
    With(SegmentPoint(Vertex(line, i), Vertex(line, i + 1), t), LAMBDA proj :
      With(Dist2(point, proj), LAMBDA d2 :
        IF best.d2 < 0 \/ d2 < best.d2
        THEN [point |-> proj, index |-> i, t |-> t, d2 |-> d2]
        ELSE best)))

RECURSIVE NearestLoop(_, _, _, _)
NearestLoop(point, line, i, best) ==
  IF i >= Len(line) - 1 THEN best
  ELSE With(NearestStep(point, line, i, best), LAMBDA nearest :
         NearestLoop(point, line, i + 1, nearest))

nearestPointOnLine(point, line) ==
  NearestLoop(point, line, 0,
              [point |-> point, index |-> 0, t |-> <<0, 1>>, d2 |-> -1])

\* Mutant of PointAt: the offset within the segment is ignored
PointAtVertex(line, i, t) == Vertex(line, i)

\* line[i] + t * (line[i + 1] - line[i])
PointAt(line, i, t) == Lerp(Vertex(line, i), Vertex(line, i + 1), t)

Seg(s, e) == [start |-> s, end |-> e, dist |-> distance(s, e)]

RECURSIVE ForwardSegs(_, _, _)
ForwardSegs(line, i, endIndex) ==
  IF i >= endIndex THEN <<>>
  ELSE <<Seg(Vertex(line, i), Vertex(line, i + 1))>>
         \o ForwardSegs(line, i + 1, endIndex)

RECURSIVE BackwardSegs(_, _, _)
BackwardSegs(line, i, endIndex) ==
  IF i <= endIndex THEN <<>>
  ELSE <<Seg(Vertex(line, i + 1), Vertex(line, i))>>
         \o BackwardSegs(line, i - 1, endIndex)

RECURSIVE SumDist(_)
SumDist(segs) == IF segs = <<>> THEN 0 ELSE Head(segs).dist + SumDist(Tail(segs))

\* The final loop of pointAlongLine: the point at targetDist =
\* progress * totalDist, walking the segments; progress is a fraction, so
\* accumulated + seg.dist >= targetDist is compared after multiplying by
\* its denominator.
RECURSIVE WalkSegs(_, _, _, _, _)
WalkSegs(segs, k, accumulated, progress, totalDist) ==
  IF k > Len(segs) THEN segs[Len(segs)].end
  ELSE LET seg == segs[k]
       IN IF (accumulated + seg.dist) * progress[2] >= progress[1] * totalDist
          THEN With(IF seg.dist > 0
                    THEN Frac(progress[1] * totalDist - accumulated * progress[2],
                              progress[2] * seg.dist)
                    ELSE <<0, 1>>,
                    LAMBDA segProgress : Lerp(seg.start, seg.end, segProgress))
          ELSE WalkSegs(segs, k + 1, accumulated + seg.dist, progress, totalDist)

\* The segments of pointAlongLine from startPoint to endPoint
PathSegments(line, startIndex, endIndex, startPoint, endPoint) ==
  IF endIndex > startIndex
  THEN <<Seg(startPoint, Vertex(line, startIndex + 1))>>
         \o ForwardSegs(line, startIndex + 1, endIndex)
         \o <<Seg(Vertex(line, endIndex), endPoint)>>
  ELSE <<Seg(startPoint, Vertex(line, startIndex))>>
         \o BackwardSegs(line, startIndex - 1, endIndex)
         \o <<Seg(Vertex(line, endIndex + 1), endPoint)>>

\* Mutant of PointAtProgress: every segment counts the same, whatever its
\* length
PointAtProgressPerVertex(segments, progress) ==
  WalkSegs([k \in 1..Len(segments) |-> [segments[k] EXCEPT !.dist = 1]],
           1, 0, progress, Len(segments))

\* "Find point at progress along total distance"
PointAtProgress(segments, progress) ==
  With(SumDist(segments), LAMBDA totalDist :
    WalkSegs(segments, 1, 0, progress, totalDist))

pointAlongLine(line, startIndex, startT, endIndex, endT, progress) ==
  With(PointAt(line, startIndex, startT), LAMBDA startPoint :
    With(PointAt(line, endIndex, endT), LAMBDA endPoint :
      IF startIndex = endIndex
      THEN Lerp(startPoint, endPoint, progress)
      ELSE With(PathSegments(line, startIndex, endIndex, startPoint, endPoint),
                LAMBDA segments : PointAtProgress(segments, progress))))

\* The direction of calculateBearing(from, to) = atan2(dx, dy) in degrees
\* (0 = north, clockwise), kept exactly as the vector <<dx, dy>> in lowest
\* terms: <<0, 1>> is 0 degrees, <<1, 0>> is 90 degrees.  atan2(0, 0) = 0.
calculateBearing(from, to) ==
  LET dx == to[1] - from[1]
      dy == to[2] - from[2]
      g == GCD(Abs(dx), Abs(dy))
  IN IF g = 0 THEN <<0, 1>> ELSE <<dx \div g, dy \div g>>

\* bearing + 180
Reverse(bearing) == <<-bearing[1], -bearing[2]>>

\* bearing - 90
MinusQuarter(bearing) == <<-bearing[2], bearing[1]>>

\* A stop id is a sequence of characters; <<>> is an absent (or empty) id.
\* The result is "N", "S" or "" (null).
getDirectionFromStopId(stopId) ==
  IF stopId = <<>> THEN ""
  ELSE LET suffix == stopId[Len(stopId)]
       IN IF suffix = "N" \/ suffix = "S" THEN suffix ELSE ""

\* ------------------------------------------------------------ model inputs
TrainIds == {"X"}

\* Vertices of the track of route L: up, across, down.
TrackL == <<<<0, 0>>, <<0, 3000>>, <<12000, 3000>>, <<12000, 0>>>>

\* What the geometry file holds: route L has a degenerate one-point line
\* and the track.
LinesData == [r \in {"L"} |-> <<<<<<12000, 0>>>>, TrackL>>]

\* Reported positions: the two ends of the track, a point 4 units from the
\* first, and a point off the track, further than the snap threshold from
\* the first.
Points == {<<0, 0>>, <<4, 0>>, <<12000, 0>>, <<24000, 0>>}

\* The snapshots a feed can report for a train of route L
Snapshots == [pos : Points, routeId : {"L"},
              currentStopId : {<<"L", "0", "8", "S">>}]

Batches == UNION {[ids -> Snapshots] : ids \in SUBSET TrainIds}

TimeSteps == {2000, 4000}

\* ------------------------------------------------------------------ state
VARIABLES
  now,               \* performance.now(), ms
  routePaths,        \* routePaths.current: route id -> sequence of polylines
  sourceReady,       \* the map has its 'trains' source
  filteredTrains,    \* the batch of the latest render: id -> snapshot
  frameTrains,       \* the batch captured by the registered animate callback
  trainAnimations,   \* trainAnimations.current: id -> TrainAnimation
  currentPositions,  \* currentPositions.current: id -> position
  features,          \* the render records of the latest frame: id -> record
  batches,           \* the number of batches rendered so far
  ev,                \* history: what the latest reconciliation or frame did
  probe,             \* a call of a pure function: its arguments and result
  animationRef,      \* animationRef.current: a frame handle, 0 for null
  scheduled,         \* the browser's list of frame callbacks: handle and function
  mounted,           \* the component is mounted
  dateNow,           \* Date.now() of the server, ms
  cachedTrains,      \* cachedTrains of the server
  cachedAlerts,      \* cachedAlerts of the server
  lastFetchTime,     \* lastFetchTime of the server
  calls,             \* the calls of getAllData that await the feeds: their now
  served,            \* history: what the latest step of getAllData did
  reply,             \* history: the response of the handler's latest step
  trainStore,        \* the state of useTrainStore
  intervalRef,       \* intervalRef.current of useTrainPositions: 0 for null
  intervals,         \* the browser's live interval timers: their handles
  pending,           \* the calls of fetchTrains that await their response
  polls,             \* the number of calls of fetchTrains so far
  clientNow,         \* Date.now() of the browser, ms
  completed,         \* history: the latest call of fetchTrains that ended
  onlyGroups         \* history: every label used so far is one of LINE_GROUPS

\* The frame loop's registration
loopVars == <<animationRef, scheduled, mounted>>

\* The state of the server
serverVars == <<dateNow, cachedTrains, cachedAlerts, lastFetchTime, calls, served,
                reply>>

\* The store and the polling hook
storeVars == <<trainStore, intervalRef, intervals, pending, polls, clientNow,
               completed, onlyGroups>>

vars == <<now, routePaths, sourceReady, filteredTrains, frameTrains, trainAnimations,
          currentPositions, features, batches, ev, probe, loopVars, serverVars,
          storeVars>>

\* ------------------------------------------------------- path resolution
\* Mutant of PathsOf: a route without polylines gets the track
PathsOfDefault(paths, routeId) ==
  IF routeId \in DOMAIN paths /\ paths[routeId] # << >> THEN paths[routeId]
  ELSE <<TrackL>>

\* routePaths.current.get(routeId), <<>> for undefined
PathsOf(paths, routeId) ==
  IF routeId \in DOMAIN paths THEN paths[routeId] ELSE <<>>

NoBest == [found |-> FALSE, path |-> <<>>,
           startIndex |-> 0, startT |-> <<0, 1>>, startDist |-> 0, startD2 |-> 0,
           endIndex |-> 0, endT |-> <<0, 1>>, endDist |-> 0, endD2 |-> 0]

\* The body of the loop of findPathBetweenPoints for a candidate with the
\* two projections and their distances; the best distances start at
\* Infinity (best.found = FALSE).
BetterPath(path, start, end, startNearest, endNearest, startDist, endDist, best) ==
  IF ~best.found \/ startDist + endDist < best.startDist + best.endDist
  THEN [found |-> TRUE, path |-> path,
        startIndex |-> startNearest.index, startT |-> startNearest.t,
        startDist |-> startDist, startD2 |-> Dist2(start, startNearest.point),
        endIndex |-> endNearest.index, endT |-> endNearest.t,
        endDist |-> endDist, endD2 |-> Dist2(end, endNearest.point)]
  ELSE best

\* Mutant of BestPathStep: a polyline with fewer than 2 points is a
\* candidate too
BestPathStepAnyLength(path, start, end, best) ==
  With(nearestPointOnLine(start, path), LAMBDA startNearest :
    With(nearestPointOnLine(end, path), LAMBDA endNearest :
      With(distance(start, startNearest.point), LAMBDA startDist :
        With(distance(end, endNearest.point), LAMBDA endDist :
          BetterPath(path, start, end, startNearest, endNearest,
                     startDist, endDist, best)))))

\* if (path.length < 2) continue; then the projections and their distances
BestPathStep(path, start, end, best) ==
  IF Len(path) < 2 THEN best
  ELSE With(nearestPointOnLine(start, path), LAMBDA startNearest :
         With(nearestPointOnLine(end, path), LAMBDA endNearest :
           With(distance(start, startNearest.point), LAMBDA startDist :
             With(distance(end, endNearest.point), LAMBDA endDist :
               BetterPath(path, start, end, startNearest, endNearest,
                          startDist, endDist, best)))))

\* The loop of findPathBetweenPoints over the candidate polylines
RECURSIVE BestPathLoop(_, _, _, _, _)
BestPathLoop(cands, k, start, end, best) ==
  IF k > Len(cands) THEN best
  ELSE With(BestPathStep(cands[k], start, end, best), LAMBDA better :
         BestPathLoop(cands, k + 1, start, end, better))

\* Mutant of CloseEnough: only the start has to be close
CloseEnoughAtStart(best) ==
  IF best.found /\ best.startD2 < PathProximity * PathProximity
  THEN best
  ELSE NoBest

\* "Only use path if both points are reasonably close to it"
CloseEnough(best) ==
  IF /\ best.found
     /\ best.startD2 < PathProximity * PathProximity
     /\ best.endD2 < PathProximity * PathProximity
  THEN best
  ELSE NoBest

\* The result has found = FALSE for null.
findPathBetweenPoints(paths, routeId, start, end) ==
  CloseEnough(BestPathLoop(PathsOf(paths, routeId), 1, start, end, NoBest))

\* ---------------------------------------------------------- reconciliation
\* A TrainAnimation; path = <<>> stands for an undefined path (and then the
\* four path fields are undefined too).
StraightAnimation(startPos, endPos, t, routeId) ==
  [startPos |-> startPos, endPos |-> endPos, startTime |-> t,
   routeId |-> routeId, path |-> <<>>,
   startIndex |-> 0, startT |-> <<0, 1>>, endIndex |-> 0, endT |-> <<0, 1>>]

\* Mutant of PathAnimation: the end is stored as the vertex after its
\* segment
PathAnimationEndVertex(startPos, endPos, t, routeId, info) ==
  [startPos |-> startPos, endPos |-> endPos, startTime |-> t,
   routeId |-> routeId, path |-> info.path,
   startIndex |-> info.startIndex, startT |-> info.startT,
   endIndex |-> info.endIndex + 1, endT |-> <<0, 1>>]

\* The record with the path fields of the resolved path
PathAnimation(startPos, endPos, t, routeId, info) ==
  [startPos |-> startPos, endPos |-> endPos, startTime |-> t,
   routeId |-> routeId, path |-> info.path,
   startIndex |-> info.startIndex, startT |-> info.startT,
   endIndex |-> info.endIndex, endT |-> info.endT]

\* "Check if position actually changed": the early return of the effect
PositionUnchanged(currentPos, newPos) ==
  /\ Abs(currentPos[1] - newPos[1]) < SameEpsilon
  /\ Abs(currentPos[2] - newPos[2]) < SameEpsilon

\* Mutant of AnimationStart: the progress is not eased
AnimationStartLinear(existingAnim, t) ==
  With(Progress(t - existingAnim.startTime), LAMBDA progress :
    IF existingAnim.path # <<>>
    THEN pointAlongLine(existingAnim.path,
                        existingAnim.startIndex, existingAnim.startT,
                        existingAnim.endIndex, existingAnim.endT,
                        progress)
    ELSE Lerp(existingAnim.startPos, existingAnim.endPos, progress))

\* "Calculate starting position" of the effect, for an existing animation
AnimationStart(existingAnim, t) ==
  With(easeOutCubic(Progress(t - existingAnim.startTime)), LAMBDA easedProgress :
    IF existingAnim.path # <<>>
    THEN pointAlongLine(existingAnim.path,
                        existingAnim.startIndex, existingAnim.startT,
                        existingAnim.endIndex, existingAnim.endT,
                        easedProgress)
    ELSE Lerp(existingAnim.startPos, existingAnim.endPos, easedProgress))

\* Mutant of StartPosition: an entity that is new starts at the origin
StartPositionOrigin(id, newPos, anims, cache, t) ==
  IF id \in DOMAIN anims THEN AnimationStart(anims[id], t)
  ELSE IF id \in DOMAIN cache THEN cache[id]
  ELSE <<0, 0>>

\* "Calculate starting position": the sampled animation, else the cached
\* position, else the new position itself
StartPosition(id, newPos, anims, cache, t) ==
  IF id \in DOMAIN anims THEN AnimationStart(anims[id], t)
  ELSE IF id \in DOMAIN cache THEN cache[id]
  ELSE newPos

\* Mutant of TooFar: the threshold applied to each axis on its own
TooFarPerAxis(startPos, newPos) ==
  /\ Abs(startPos[1] - newPos[1]) > SnapThreshold
  /\ Abs(startPos[2] - newPos[2]) > SnapThreshold

\* dist > 0.02
TooFar(startPos, newPos) ==
  Dist2(startPos, newPos) > SnapThreshold * SnapThreshold

\* Mutant of Moved: any difference counts as a move
MovedAtAll(startPos, newPos) == Dist2(startPos, newPos) > 0

\* dist > 0.00001
Moved(startPos, newPos) ==
  Dist2(startPos, newPos) > MoveEpsilon * MoveEpsilon

\* Mutant of NewAnimation: the resolved path is not used
NewAnimationStraight(train, startPos, pathInfo, t) ==
  StraightAnimation(startPos, train.pos, t, train.routeId)

\* The record stored for a train that moved from startPos
NewAnimation(train, startPos, pathInfo, t) ==
  IF pathInfo.found
  THEN PathAnimation(startPos, train.pos, t, train.routeId, pathInfo)
  ELSE StraightAnimation(startPos, train.pos, t, train.routeId)

\* The distance test of the effect
ReconcileFrom(train, startPos, paths, t) ==
  IF TooFar(startPos, train.pos)
  THEN [branch |-> "snap", pos |-> train.pos]
  ELSE IF Moved(startPos, train.pos)
  THEN With(findPathBetweenPoints(paths, train.routeId, startPos, train.pos),
            LAMBDA pathInfo :
              [branch |-> "animate",
               anim |-> NewAnimation(train, startPos, pathInfo, t)])
  ELSE [branch |-> "still"]

\* The body of filteredTrains.forEach for one train.  The result says what
\* becomes of the train's entries: branch is "unchanged" (early return),
\* "snap", "animate" or "still" (neither branch of the distance test).
ReconcileTrain(id, train, anims, cache, paths, t) ==
  IF id \in DOMAIN cache /\ PositionUnchanged(cache[id], train.pos)
  THEN [branch |-> "unchanged"]
  ELSE With(StartPosition(id, train.pos, anims, cache, t), LAMBDA startPos :
         ReconcileFrom(train, startPos, paths, t))

\* "Clean up old train data": the ids whose entries are deleted
CleanedUp(anims, batch) == {id \in DOMAIN anims : id \notin DOMAIN batch}

\* ----------------------------------------------------------- frame producer
\* Mutant of FramePosition: always the straight line
FramePositionStraight(anim, t) ==
  With(easeOutCubic(Progress(t - anim.startTime)), LAMBDA easedProgress :
    Lerp(anim.startPos, anim.endPos, easedProgress))

\* The position animate computes for a train that has an animation
FramePosition(anim, t) ==
  With(easeOutCubic(Progress(t - anim.startTime)), LAMBDA easedProgress :
    IF anim.path # <<>>
    THEN pointAlongLine(anim.path, anim.startIndex, anim.startT,
                        anim.endIndex, anim.endT, easedProgress)
    ELSE Lerp(anim.startPos, anim.endPos, easedProgress))

\* Mutant of Finished: the duration has to be exceeded
FinishedLate(anim, t) == t - anim.startTime > ANIMATION_DURATION

\* progress >= 1
Finished(anim, t) == Progress(t - anim.startTime) = <<1, 1>>

\* Mutant of SegmentBearing: never reversed
SegmentBearingForward(path, idx, direction) ==
  LET fromPt == IF idx < Len(path) - 1 THEN Vertex(path, idx)
                ELSE Vertex(path, idx - 1)
      toPt == IF idx < Len(path) - 1 THEN Vertex(path, idx + 1)
              ELSE Vertex(path, idx)
  IN calculateBearing(fromPt, toPt)

\* The direction from vertex idx of path to the next one (or, for the last
\* vertex, from the one before), reversed for a southbound train
SegmentBearing(path, idx, direction) ==
  LET fromPt == IF idx < Len(path) - 1 THEN Vertex(path, idx)
                ELSE Vertex(path, idx - 1)
      toPt == IF idx < Len(path) - 1 THEN Vertex(path, idx + 1)
              ELSE Vertex(path, idx)
  IN IF direction = "S" THEN Reverse(calculateBearing(fromPt, toPt))
     ELSE calculateBearing(fromPt, toPt)

\* The bearing of the segment of path nearest to coords
TangentBearing(coords, path, direction) ==
  With(nearestPointOnLine(coords, path), LAMBDA nearest :
    SegmentBearing(path, nearest.index, direction))

NoBearing == [found |-> FALSE, bearing |-> <<0, 0>>]

\* The bearing from a candidate whose nearest point is given, if that is
\* within the proximity threshold of coords
BearingIfClose(coords, path, nearest, direction) ==
  IF Dist2(coords, nearest.point) < PathProximity * PathProximity
  THEN [found |-> TRUE, bearing |-> SegmentBearing(path, nearest.index, direction)]
  ELSE NoBearing

\* "Fallback: try to find bearing from route paths": the first candidate
\* within the proximity threshold of coords
RECURSIVE FallbackBearing(_, _, _, _)
FallbackBearing(cands, k, coords, direction) ==
  IF k > Len(cands) THEN NoBearing
  ELSE IF Len(cands[k]) < 2 THEN FallbackBearing(cands, k + 1, coords, direction)
  ELSE With(nearestPointOnLine(coords, cands[k]), LAMBDA nearest :
         With(BearingIfClose(coords, cands[k], nearest, direction), LAMBDA found :
           IF found.found THEN found
           ELSE FallbackBearing(cands, k + 1, coords, direction)))

\* The position animate draws for a train: the sampled animation, else the
\* cached position, else the position of the snapshot
Displayed(id, train, anims, cache, t) ==
  IF id \in DOMAIN anims THEN FramePosition(anims[id], t)
  ELSE IF id \in DOMAIN cache THEN cache[id]
  ELSE train.pos

\* Mutant of BearingOf: a train without a path and without a direction gets
\* the bearing of its snapshot
BearingOfFeed(id, train, anims, paths, coords, onPath) ==
  IF onPath
  THEN [found |-> TRUE,
        bearing |-> TangentBearing(coords, anims[id].path,
                                   getDirectionFromStopId(train.currentStopId))]
  ELSE IF getDirectionFromStopId(train.currentStopId) # ""
  THEN FallbackBearing(PathsOf(paths, train.routeId), 1, coords,
                       getDirectionFromStopId(train.currentStopId))
  ELSE IF train.bearing # << >>
  THEN [found |-> TRUE, bearing |-> train.bearing[1]]
  ELSE NoBearing

\* "Calculate bearing from animation path or route"; onPath says that the
\* train has an animation with a path after this frame
BearingOf(id, train, anims, paths, coords, onPath) ==
  IF onPath
  THEN [found |-> TRUE,
        bearing |-> TangentBearing(coords, anims[id].path,
                                   getDirectionFromStopId(train.currentStopId))]
  ELSE IF getDirectionFromStopId(train.currentStopId) # ""
  THEN FallbackBearing(PathsOf(paths, train.routeId), 1, coords,
                       getDirectionFromStopId(train.currentStopId))
  ELSE NoBearing

\* The render record of a train
Feature(train, coords, found) ==
  [coordinates |-> coords,
   routeId |-> train.routeId,
   hasBearing |-> found.found,
   bearing |-> IF found.found THEN MinusQuarter(found.bearing) ELSE <<0, 0>>,
   direction |-> getDirectionFromStopId(train.currentStopId)]

\* The frame of a train whose coordinates are known
animateAt(id, train, anims, paths, t, coords, finalize) ==
  With(BearingOf(id, train, anims, paths, coords,
                 /\ id \in DOMAIN anims
                 /\ ~finalize
                 /\ Len(anims[id].path) >= 2),
       LAMBDA bearing :
         [coords |-> coords,
          finalize |-> finalize,
          static |-> id \notin DOMAIN anims,
          feature |-> Feature(train, coords, bearing)])

\* The body of filteredTrains.map for one train: its coordinates, whether
\* its animation is finalized in this frame, and its render record.
animateTrain(id, train, anims, cache, paths, t) ==
  With(Displayed(id, train, anims, cache, t), LAMBDA coords :
    animateAt(id, train, anims, paths, t, coords,
              id \in DOMAIN anims /\ Finished(anims[id], t)))

\* ---------------------------------------------------------------- actions
NoProbe == [fn |-> "none"]

NoEvent == [op |-> "mount", branch |-> << >>, live |-> {}, first |-> {}, gone |-> {}]

\* The handles of the callbacks of a list
Handles(sched) == {cb.handle : cb \in sched}

\* The handle requestAnimationFrame returns.  The browser never repeats a
\* handle; here it is the least handle that is neither in the list nor held
\* in animationRef, so that a handle kept from before names no later
\* callback.
FreshHandle(sched, ref) ==
  CHOOSE h \in 1..(Cardinality(sched) + 2) :
    /\ h \notin Handles(sched) \cup {ref}
    /\ \A g \in 1..(h - 1) : g \in Handles(sched) \cup {ref}

\* requestAnimationFrame(animate): the list with the callback added.  An
\* animate function is named by the batch it has captured.
requestAnimationFrame(sched, ref, animate) ==
  sched \cup {[handle |-> FreshHandle(sched, ref), animate |-> animate]}

\* Mutant of cancelAnimationFrame: nothing is cancelled
cancelNothing(sched, ref) == sched

\* if (animationRef.current) cancelAnimationFrame(animationRef.current);
\* no callback has the handle 0 of a null reference.
cancelAnimationFrame(sched, ref) == {cb \in sched : cb.handle # ref}

\* animationRef.current = requestAnimationFrame(animate), sched being the
\* list of callbacks before the call
Register(sched, animate) ==
  /\ scheduled' = requestAnimationFrame(sched, animationRef, animate)
  /\ animationRef' = FreshHandle(sched, animationRef)

\* The state of the server before any request
\* No request has been answered
NoResponse == [method |-> "", status |-> 0, body |-> "none"]

ServerIdle ==
  /\ dateNow = 0
  /\ cachedTrains = << >>
  /\ cachedAlerts = << >>
  /\ lastFetchTime = 0
  /\ calls = << >>
  /\ served = [op |-> "none", count |-> 0, trains |-> << >>, alerts |-> << >>,
               now |-> 0, contacted |-> {},
               upstream |-> [feeds |-> << >>, alerts |-> << >>], round |-> -1]
  /\ reply = NoResponse

\* No filter: activeLines is null
NoFilter == [null |-> TRUE, set |-> {}]

\* The store as created (trainStore.ts, useTrainStore); lastUpdated and
\* error are <<>> for null and <<value>> otherwise
InitialStore ==
  [trains |-> << >>, alerts |-> << >>, lastUpdated |-> << >>, isLoading |-> FALSE,
   error |-> << >>, activeLines |-> NoFilter]

\* No call of fetchTrains has ended.  wrote is the call whose response the
\* store's trains and alerts hold, 0 for none.
NoPoll == [poll |-> 0, outcome |-> "none", trains |-> << >>, alerts |-> << >>,
           wrote |-> 0]

\* The store as created and the hook before its effect has run
StoreIdle ==
  /\ trainStore = InitialStore
  /\ intervalRef = 0
  /\ intervals = {}
  /\ pending = {}
  /\ polls = 0
  /\ clientNow = 0
  /\ completed = NoPoll
  /\ onlyGroups = TRUE

\* The component after its first render without trains: the effect "Start
\* animation loop" has registered animate.
LoopStarted ==
  /\ animationRef = 1
  /\ scheduled = {[handle |-> 1, animate |-> << >>]}
  /\ mounted = TRUE

Init ==
  /\ now = 0
  /\ routePaths = << >>
  /\ sourceReady = FALSE
  /\ filteredTrains = << >>
  /\ frameTrains = << >>
  /\ trainAnimations = << >>
  /\ currentPositions = << >>
  /\ features = << >>
  /\ batches = 0
  /\ ev = NoEvent
  /\ probe = NoProbe
  /\ LoopStarted
  /\ ServerIdle
  /\ StoreIdle

\* The clock advances.
Tick ==
  /\ mounted
  /\ \E d \in TimeSteps : now + d <= MaxTime /\ now' = now + d
  /\ UNCHANGED <<routePaths, sourceReady, filteredTrains, frameTrains, trainAnimations,
                 currentPositions, features, batches, ev, probe>>
  /\ UNCHANGED <<loopVars, serverVars, storeVars>>

\* The map's load handler with the geometry file fetched: the route paths
\* are extracted, then the 'trains' source is added.
MapLoad ==
  /\ mounted
  /\ ~sourceReady
  /\ routePaths' = LinesData
  /\ sourceReady' = TRUE
  /\ UNCHANGED <<now, filteredTrains, frameTrains, trainAnimations, currentPositions,
                 features, batches, ev, probe>>
  /\ UNCHANGED <<loopVars, serverVars, storeVars>>

\* The same with the fetch of the geometry file failing.
MapLoadFailed ==
  /\ mounted
  /\ ~sourceReady
  /\ sourceReady' = TRUE
  /\ UNCHANGED <<now, routePaths, filteredTrains, frameTrains, trainAnimations,
                 currentPositions, features, batches, ev, probe>>
  /\ UNCHANGED <<loopVars, serverVars, storeVars>>

\* Mutant of RestartLoop: the loop is never restarted
RestartLoopNever(old, new) == old

\* Mutant of RestartLoop: the loop is not restarted for an empty batch
RestartLoopUnlessEmpty(old, new) == IF new = << >> THEN old ELSE new

\* The effect "Start animation loop" when animate changes: the scheduled
\* callback is cancelled and the new animate, which has captured the new
\* batch, is registered.
RestartLoop(old, new) == new

\* The entry of id in a set of per-train results
Of(results, id) == CHOOSE r \in results : r.id = id

\* A render with a new batch of trains and its effect "Update animation
\* targets when train data changes"; the effect "Start animation loop"
\* cancels the scheduled callback and registers the new animate, so the
\* frames that follow use the new batch.
Reconciled(batch) ==
  \E res \in {{[id |-> id,
                r |-> ReconcileTrain(id, batch[id], trainAnimations,
                                     currentPositions, routePaths, now)] :
                 id \in DOMAIN batch}} :
    LET snapped == {x.id : x \in {y \in res : y.r.branch = "snap"}}
        animated == {x.id : x \in {y \in res : y.r.branch = "animate"}}
        anims1 == [id \in ((DOMAIN trainAnimations) \ snapped) \cup animated |->
                     IF id \in animated THEN Of(res, id).r.anim
                     ELSE trainAnimations[id]]
        cache1 == [id \in (DOMAIN currentPositions) \cup snapped |->
                     IF id \in snapped THEN Of(res, id).r.pos
                     ELSE currentPositions[id]]
        old == CleanedUp(anims1, batch)
    IN /\ mounted
       /\ filteredTrains' = batch
       /\ frameTrains' = RestartLoop(frameTrains, batch)
       /\ Register(cancelAnimationFrame(scheduled, animationRef),
                   RestartLoop(frameTrains, batch))
       /\ trainAnimations' = [id \in (DOMAIN anims1) \ old |-> anims1[id]]
       /\ currentPositions' = [id \in (DOMAIN cache1) \ old |-> cache1[id]]
       /\ ev' = [op |-> "reconcile",
                 branch |-> [id \in DOMAIN batch |-> Of(res, id).r.branch],
                 live |-> (DOMAIN batch) \cap (DOMAIN trainAnimations),
                 first |-> {id \in DOMAIN batch :
                              /\ id \notin DOMAIN trainAnimations
                              /\ id \notin DOMAIN currentPositions},
                 gone |-> (DOMAIN filteredTrains) \ (DOMAIN batch)]
       /\ UNCHANGED <<now, routePaths, sourceReady, features, probe, mounted>>
       /\ UNCHANGED <<serverVars, storeVars>>

\* The same, counted
Reconcile(batch) ==
  /\ batches < MaxBatches
  /\ batches' = batches + 1
  /\ Reconciled(batch)

\* A frame callback before the map has its source: nothing is drawn.
FrameSkipped ==
  /\ ~sourceReady
  /\ ev.op # "skipped"
  /\ \E cb \in scheduled :
       /\ cb.animate = frameTrains
       /\ Register(scheduled \ {cb}, cb.animate)
  /\ ev' = [NoEvent EXCEPT !.op = "skipped"]
  /\ UNCHANGED <<now, routePaths, sourceReady, filteredTrains, frameTrains, trainAnimations,
                 currentPositions, features, batches, probe, mounted>>
  /\ UNCHANGED <<serverVars, storeVars>>

\* A frame callback: the browser takes it off its list and calls animate,
\* which draws and registers itself again.
Frame ==
  \E res \in {{[id |-> id,
                r |-> animateTrain(id, frameTrains[id], trainAnimations,
                                   currentPositions, routePaths, now)] :
                 id \in DOMAIN frameTrains}} :
    LET finalized == {x.id : x \in {y \in res : y.r.finalize}}
        static == {x.id : x \in {y \in res : y.r.static}}
    IN /\ sourceReady
       /\ \E cb \in scheduled :
            /\ cb.animate = frameTrains
            /\ Register(scheduled \ {cb}, cb.animate)
       /\ trainAnimations' = [id \in (DOMAIN trainAnimations) \ finalized |->
                                trainAnimations[id]]
       /\ currentPositions' =
            [id \in (DOMAIN currentPositions) \cup finalized \cup static |->
               IF id \in finalized THEN trainAnimations[id].endPos
               ELSE IF id \in static THEN Of(res, id).r.coords
               ELSE currentPositions[id]]
       /\ features' = [id \in DOMAIN frameTrains |-> Of(res, id).r.feature]
       /\ ev' = [op |-> "frame",
                 branch |-> [id \in DOMAIN frameTrains |->
                               IF id \in finalized THEN "finalize"
                               ELSE IF id \in static THEN "static" ELSE "moving"],
                 live |-> (DOMAIN frameTrains) \cap (DOMAIN trainAnimations),
                 first |-> IF ev.op = "reconcile" THEN ev.first ELSE {},
                 gone |-> IF ev.op = "reconcile" THEN ev.gone ELSE {}]
       /\ UNCHANGED <<now, routePaths, sourceReady, filteredTrains, frameTrains, batches,
                      probe, mounted>>
       /\ UNCHANGED <<serverVars, storeVars>>

Next ==
  \/ Tick
  \/ MapLoad
  \/ MapLoadFailed
  \/ \E batch \in Batches : Reconcile(batch)
  \/ FrameSkipped
  \/ Frame

Spec == Init /\ [][Next]_vars

\* ------------------------------------------------------------- teardown
\* The component is unmounted: the cleanup of the map effect and the
\* cleanup of the effect "Start animation loop" each cancel the callback
\* that animationRef names, and the map is removed.
Unmount ==
  /\ mounted
  /\ mounted' = FALSE
  /\ scheduled' = cancelAnimationFrame(cancelAnimationFrame(scheduled, animationRef),
                                       animationRef)
  /\ sourceReady' = FALSE
  /\ UNCHANGED <<now, routePaths, filteredTrains, frameTrains, trainAnimations,
                 currentPositions, features, batches, ev, probe, animationRef>>
  /\ UNCHANGED <<serverVars, storeVars>>

LoopNext == Next \/ Unmount

\* The component from its mount to its unmount
LoopSpec == Init /\ [][LoopNext]_vars

\* ------------------------------------------- calls of the geometry functions
\* Polylines a geometry file can hold: the track, a line whose vertices are
\* unevenly spaced, a line with a repeated vertex, and a diagonal.
DenseLine == <<<<0, 0>>, <<1000, 0>>, <<2000, 0>>, <<12000, 0>>>>

KinkLine == <<<<0, 0>>, <<0, 3000>>, <<0, 3000>>, <<6000, 3000>>>>

Diagonal == <<<<0, 0>>, <<4000, 4000>>>>

\* A short line between (0.0015,0) and (0.006,0.009), within 0.005 of both
ShortSpur == <<<<3000, 4500>>, <<4000, 4500>>>>

GeoLines == {TrackL, DenseLine, KinkLine, Diagonal}

\* Points on, near and far from these lines
GeoPoints == {<<0, 0>>, <<0, 1000>>, <<1500, 0>>, <<2000, 2000>>, <<12000, 0>>,
              <<6000, 9000>>}

\* What routePaths.current can hold: nothing, a route without lines, and
\* routes with several lines
GeoRoutes == {<< >>,
              [r \in {"L"} |-> << >>],
              LinesData,
              [r \in {"L"} |-> <<DenseLine, TrackL, Diagonal>>],
              [r \in {"L"} |-> <<KinkLine, <<<<12000, 0>>>>, DenseLine>>],
              [r \in {"L"} |-> <<ShortSpur, DenseLine>>]}

\* Values of progress
Fracs == {<<0, 1>>, <<1, 4>>, <<1, 2>>, <<7, 8>>, <<1, 1>>}

LineInputs == [fn : {"line"}, line : GeoLines, p : GeoPoints, q : GeoPoints]

RouteInputs == [fn : {"route"}, geo : GeoRoutes, p : GeoPoints, q : GeoPoints]

\* Values of progress in tenths, from 0 to 1
Tenths == {Frac(n, 10) : n \in 0..10}

EaseInputs == [fn : {"ease"}, a : Tenths, b : Tenths]

GeoInit ==
  /\ now = 0
  /\ routePaths = << >>
  /\ sourceReady = FALSE
  /\ filteredTrains = << >>
  /\ frameTrains = << >>
  /\ trainAnimations = << >>
  /\ currentPositions = << >>
  /\ features = << >>
  /\ batches = 0
  /\ ev = NoEvent
  /\ probe \in LineInputs \cup RouteInputs \cup EaseInputs
  /\ LoopStarted
  /\ ServerIdle
  /\ StoreIdle

\* nearestPointOnLine(p, line)
Project ==
  /\ probe.fn = "line"
  /\ probe' = [fn |-> "projected", line |-> probe.line, p |-> probe.p,
               out |-> nearestPointOnLine(probe.p, probe.line)]
  /\ UNCHANGED <<now, routePaths, sourceReady, filteredTrains, frameTrains,
                 trainAnimations, currentPositions, features, batches, ev>>
  /\ UNCHANGED <<loopVars, serverVars, storeVars>>

\* pointAlongLine between two projections, for every value of progress
InterpolateBetween(line, a, b) ==
  [fn |-> "interpolated", line |-> line, a |-> a, b |-> b,
   out |-> [f \in Fracs |->
              pointAlongLine(line, a.index, a.t, b.index, b.t, f)]]

\* pointAlongLine between the projections of p and q onto line
Interpolate ==
  /\ probe.fn = "line"
  /\ probe' = InterpolateBetween(probe.line,
                                 nearestPointOnLine(probe.p, probe.line),
                                 nearestPointOnLine(probe.q, probe.line))
  /\ UNCHANGED <<now, routePaths, sourceReady, filteredTrains, frameTrains,
                 trainAnimations, currentPositions, features, batches, ev>>
  /\ UNCHANGED <<loopVars, serverVars, storeVars>>

\* findPathBetweenPoints("L", p, q)
Resolve ==
  /\ probe.fn = "route"
  /\ probe' = [fn |-> "resolved", geo |-> probe.geo, p |-> probe.p, q |-> probe.q,
               out |-> findPathBetweenPoints(probe.geo, "L", probe.p, probe.q)]
  /\ UNCHANGED <<now, routePaths, sourceReady, filteredTrains, frameTrains,
                 trainAnimations, currentPositions, features, batches, ev>>
  /\ UNCHANGED <<loopVars, serverVars, storeVars>>

\* The fraction half-way between a and b
Midway(a, b) == Frac(a[1] * b[2] + b[1] * a[2], 2 * a[2] * b[2])

\* easeOutCubic of a, of b and of the value half-way between them
Ease ==
  /\ probe.fn = "ease"
  /\ probe' = [fn |-> "eased", a |-> probe.a, b |-> probe.b,
               out |-> [a |-> easeOutCubic(probe.a),
                        mid |-> easeOutCubic(Midway(probe.a, probe.b)),
                        b |-> easeOutCubic(probe.b)]]
  /\ UNCHANGED <<now, routePaths, sourceReady, filteredTrains, frameTrains,
                 trainAnimations, currentPositions, features, batches, ev>>
  /\ UNCHANGED <<loopVars, serverVars, storeVars>>

GeoNext == Project \/ Interpolate \/ Resolve \/ Ease

GeoSpec == GeoInit /\ [][GeoNext]_vars

\* ------------------------------------------ trains on loaded route geometry
\* The component once the map has loaded one of several geometry files,
\* with trains that report different stop ids.
RouteMaxBatches == 2

\* A track whose first segment is much longer than its second
LongTrack == <<<<0, 0>>, <<0, 14000>>, <<1000, 14000>>, <<1000, 0>>>>

\* A line that runs east, 0.004 north of the first vertex of the track
Siding == <<<<0, 4000>>, <<12000, 4000>>>>

\* What routePaths.current holds after the load: route L is the track
\* alone, the long track alone, the siding followed by the track, or the
\* siding alone; or the file has no polyline of route L; or the file was
\* not loaded.
RouteGeometries == {[r \in {"L"} |-> <<TrackL>>],
                    [r \in {"L"} |-> <<LongTrack>>],
                    [r \in {"L"} |-> <<Siding, TrackL>>],
                    [r \in {"L"} |-> <<Siding>>],
                    [r \in {"L"} |-> << >>],
                    << >>}

\* Vertex 0 of both tracks and vertex 2 of each
RoutePoints == {<<0, 0>>, <<12000, 3000>>, <<1000, 14000>>}

\* Stop ids: northbound, southbound, without a direction suffix, absent
StopIds == {<<"L", "0", "8", "N">>, <<"L", "0", "8", "S">>, <<"L", "0", "8">>, << >>}

\* The feed's own bearing of a train: absent, or east
NoFeedBearing == << >>

\* Snapshots: every position with every stop id and no bearing from the
\* feed, and every position with no stop id and a bearing from the feed
RouteSnapshots ==
  [pos : RoutePoints, routeId : {"L"}, currentStopId : StopIds,
   bearing : {NoFeedBearing}]
    \cup [pos : RoutePoints, routeId : {"L"}, currentStopId : {<< >>},
          bearing : {<<<<1, 0>>>>}]

RouteBatches == UNION {[ids -> RouteSnapshots] : ids \in SUBSET TrainIds}

RouteInit ==
  /\ now = 0
  /\ routePaths \in RouteGeometries
  /\ sourceReady = TRUE
  /\ filteredTrains = << >>
  /\ frameTrains = << >>
  /\ trainAnimations = << >>
  /\ currentPositions = << >>
  /\ features = << >>
  /\ batches = 0
  /\ ev = NoEvent
  /\ probe = NoProbe
  /\ LoopStarted
  /\ ServerIdle
  /\ StoreIdle

\* A render with a new batch of these trains
RouteReconcile(batch) ==
  /\ batches < RouteMaxBatches
  /\ Reconcile(batch)

RouteNext ==
  \/ Tick
  \/ \E batch \in RouteBatches : RouteReconcile(batch)
  \/ Frame

RouteSpec == RouteInit /\ [][RouteNext]_vars

\* ------------------------------------------------ a train reported at rest
\* The component with a feed that, after its first batches, reports train
\* X at the same position in every batch, for ever.  Frames, renders and
\* the clock go on without end, so the clock is kept relative: the
\* computations use only now - startTime, and when time passes the start
\* times move back instead of now moving on; a start time is not moved
\* back further than the duration, from which on progress is 1.
LivePrefix == 2

LiveSnapshots ==
  [pos : RoutePoints, routeId : {"L"}, currentStopId : {<<"L", "0", "8", "N">>},
   bearing : {NoFeedBearing}]

LiveBatches == [TrainIds -> LiveSnapshots]

\* Time passes while an animation runs.
Elapse ==
  /\ \E d \in TimeSteps :
       trainAnimations' =
         [id \in DOMAIN trainAnimations |->
            [trainAnimations[id] EXCEPT
               !.startTime = Max(@ - d, now - ANIMATION_DURATION)]]
  /\ trainAnimations' # trainAnimations
  /\ UNCHANGED <<now, routePaths, sourceReady, filteredTrains, frameTrains,
                 currentPositions, features, batches, ev, probe>>
  /\ UNCHANGED <<loopVars, serverVars, storeVars>>

\* A render with a new batch: any batch for the first LivePrefix batches,
\* then always the same; batches counts up to LivePrefix.
LiveReconcile(batch) ==
  /\ batches >= LivePrefix => batch = filteredTrains
  /\ batches' = Min(batches + 1, LivePrefix)
  /\ Reconciled(batch)

LiveNext ==
  \/ Elapse
  \/ \E batch \in LiveBatches : LiveReconcile(batch)
  \/ Frame

\* Time passes, batches keep being rendered and frames keep being drawn.
LiveSpec ==
  /\ RouteInit
  /\ [][LiveNext]_vars
  /\ WF_vars(Elapse)
  /\ WF_vars(\E batch \in LiveBatches : LiveReconcile(batch))
  /\ WF_vars(Frame)

\* ------------------------------------------------------------------ server
\* The proxy of the feeds (api/trains.ts): getAllData and its cache.  The
\* clock counts the ms since the server started.
CACHE_DURATION == 5000

MaxDate == 10000
MaxRequests == 4
MaxCalls == 2

ServerSteps == {2500}

\* Two of the feeds of FEED_URLS, and the feed of the alerts
FEED_URLS == <<"gtfs-ace", "gtfs-l">>

ALERT_URL == "subway-alerts"

\* What fetchFeed returns for each feed: the trains of the feed, none when
\* the request failed
TrainResults ==
  {results \in [1..Len(FEED_URLS) -> {<< >>, <<"A1">>, <<"A2">>, <<"L1">>}] :
     /\ results[1] \in {<< >>, <<"A1">>, <<"A2">>}
     /\ results[2] \in {<< >>, <<"L1">>}}

\* What fetchAlerts returns
AlertResults == {<< >>, <<"delay">>}

\* What fetch(url) gives: a response that is OK with its decoded entities, a
\* response that is not OK, or an error thrown
Ok(body) == [kind |-> "ok", body |-> body]

NotOk == [kind |-> "status", body |-> << >>]

Thrown == [kind |-> "throw", body |-> << >>]

\* What the feeds and the alerts endpoint answer to one round of requests
Upstream ==
  [feeds : {f \in [1..Len(FEED_URLS) ->
                     {Ok(<<"A1">>), Ok(<<"A2">>), Ok(<<"L1">>), NotOk, Thrown}] :
              /\ f[1] \in {Ok(<<"A1">>), Ok(<<"A2">>), NotOk}
              /\ f[2] \in {Ok(<<"L1">>), Thrown}},
   alerts : {Ok(body) : body \in AlertResults} \cup {Thrown}]

\* fetchFeed: the trains of the response, none when the response is not OK
\* or fetch threw
fetchFeed(response) == IF response.kind = "ok" THEN response.body ELSE << >>

\* fetchAlerts: the same for the alerts
fetchAlerts(response) == IF response.kind = "ok" THEN response.body ELSE << >>

\* Mutant of Flat: the lists up to the first empty one
RECURSIVE FlatUntilEmpty(_, _)
FlatUntilEmpty(results, k) ==
  IF k > Len(results) \/ results[k] = << >> THEN << >>
  ELSE results[k] \o FlatUntilEmpty(results, k + 1)

\* trainResults.flat()
RECURSIVE Flat(_, _)
Flat(results, k) ==
  IF k > Len(results) THEN << >> ELSE results[k] \o Flat(results, k + 1)

\* Mutant of Fresh: an empty list of trains is served from the cache too
FreshEvenIfEmpty(trains, t, last) == t - last < CACHE_DURATION

\* "Return cached data if fresh enough"
Fresh(trains, t, last) == Len(trains) > 0 /\ t - last < CACHE_DURATION

\* The calls without the k-th
Without(seq, k) == [j \in 1..(Len(seq) - 1) |-> IF j < k THEN seq[j] ELSE seq[j + 1]]

\* The methods of the requests
Methods == {"GET", "OPTIONS", "POST"}

\* Mutant of Allowed: every method that is not OPTIONS is served
AllowedAny(method) == TRUE

\* The handler serves the method (it answers 405 when req.method !== 'GET')
Allowed(method) == method = "GET"

\* The handler's answer once getAllData has returned or thrown
Answer(method, threw) ==
  IF threw THEN [method |-> method, status |-> 500, body |-> "error"]
  ELSE [method |-> method, status |-> 200, body |-> "data"]

\* The handler awaits getAllData
Awaiting(method) == [method |-> method, status |-> 0, body |-> "none"]

ServerTick ==
  /\ \E d \in ServerSteps : dateNow + d <= MaxDate /\ dateNow' = dateNow + d
  /\ UNCHANGED <<cachedTrains, cachedAlerts, lastFetchTime, calls, served, reply>>
  /\ UNCHANGED <<now, routePaths, sourceReady, filteredTrains, frameTrains,
                 trainAnimations, currentPositions, features, batches, ev, probe>>
  /\ UNCHANGED <<loopVars, storeVars>>

\* getAllData up to its return from the cache, or up to its await with the
\* requests to every feed and to the alerts sent; the call keeps its now.
getAllData ==
  /\ served.count < MaxRequests
  /\ IF Fresh(cachedTrains, dateNow, lastFetchTime)
     THEN /\ served' = [op |-> "cached", count |-> served.count + 1,
                        trains |-> cachedTrains, alerts |-> cachedAlerts,
                        now |-> dateNow, contacted |-> {},
                        upstream |-> [feeds |-> << >>, alerts |-> << >>], round |-> served.round]
          /\ UNCHANGED calls
     ELSE /\ Len(calls) < MaxCalls
          /\ calls' = Append(calls, dateNow)
          /\ served' = [op |-> "fetching", count |-> served.count + 1,
                        trains |-> << >>, alerts |-> << >>, now |-> dateNow,
                        contacted |-> {FEED_URLS[k] : k \in 1..Len(FEED_URLS)}
                                        \cup {ALERT_URL},
                        upstream |-> [feeds |-> << >>, alerts |-> << >>], round |-> dateNow]
  /\ UNCHANGED <<dateNow, cachedTrains, cachedAlerts, lastFetchTime>>
  /\ UNCHANGED <<now, routePaths, sourceReady, filteredTrains, frameTrains,
                 trainAnimations, currentPositions, features, batches, ev, probe>>
  /\ UNCHANGED <<loopVars, storeVars>>

\* The handler up to its answer, or up to its await of getAllData.
\* fetchFeed and fetchAlerts catch every error, so getAllData returns.
handler(method) ==
  IF method = "OPTIONS"
  THEN /\ reply' = [method |-> method, status |-> 200, body |-> "end"]
       /\ reply' # reply
       /\ UNCHANGED <<dateNow, cachedTrains, cachedAlerts, lastFetchTime, calls,
                      served>>
       /\ UNCHANGED <<now, routePaths, sourceReady, filteredTrains, frameTrains,
                      trainAnimations, currentPositions, features, batches, ev,
                      probe>>
       /\ UNCHANGED <<loopVars, storeVars>>
  ELSE IF ~Allowed(method)
  THEN /\ reply' = [method |-> method, status |-> 405, body |-> "error"]
       /\ reply' # reply
       /\ UNCHANGED <<dateNow, cachedTrains, cachedAlerts, lastFetchTime, calls,
                      served>>
       /\ UNCHANGED <<now, routePaths, sourceReady, filteredTrains, frameTrains,
                      trainAnimations, currentPositions, features, batches, ev,
                      probe>>
       /\ UNCHANGED <<loopVars, storeVars>>
  ELSE /\ getAllData
       /\ reply' = IF served'.op = "cached" THEN Answer(method, FALSE)
                 ELSE Awaiting(method)

\* The rest of getAllData and of the handler for the k-th call that awaits,
\* once the feeds and the alerts have answered
Fetched(k, upstream) ==
  /\ k \in 1..Len(calls)
  /\ \E trainResults \in {[i \in 1..Len(FEED_URLS) |-> fetchFeed(upstream.feeds[i])]} :
       /\ cachedTrains' = Flat(trainResults, 1)
       /\ served' = [op |-> "fetched", count |-> served.count,
                     trains |-> Flat(trainResults, 1),
                     alerts |-> fetchAlerts(upstream.alerts),
                     now |-> calls[k], contacted |-> {},
                     upstream |-> upstream, round |-> served.round]
  /\ cachedAlerts' = fetchAlerts(upstream.alerts)
  /\ lastFetchTime' = calls[k]
  /\ calls' = Without(calls, k)
  /\ reply' = Answer("GET", FALSE)
  /\ UNCHANGED dateNow
  /\ UNCHANGED <<now, routePaths, sourceReady, filteredTrains, frameTrains,
                 trainAnimations, currentPositions, features, batches, ev, probe>>
  /\ UNCHANGED <<loopVars, storeVars>>

ServerNext ==
  \/ ServerTick
  \/ \E method \in Methods : handler(method)
  \/ \E k \in 1..MaxCalls, upstream \in Upstream : Fetched(k, upstream)

ServerSpec == Init /\ [][ServerNext]_vars

\* ----------------------------------------------------------------- polling
\* The hook useTrainPositions and the store it writes (trainStore.ts).  The
\* effect calls fetchTrains and sets the interval when the clock is 0.
POLL_INTERVAL == 5000

MaxPolls == 3
MaxClock == 10000

ClientSteps == {2500}

\* What fetch(API_ENDPOINT) gives: a response that is OK with its data, a
\* response that is not OK, or an error thrown
ApiResponses ==
  [kind : {"ok"}, status : {200}, trains : {<<"A1">>, <<"A1", "L1">>},
   alerts : {<< >>, <<"delay">>}]
    \cup [kind : {"status"}, status : {500}, trains : {<< >>}, alerts : {<< >>}]
    \cup [kind : {"throw"}, status : {0}, trains : {<< >>}, alerts : {<< >>}]

\* The message of the error fetchTrains catches
Message(response) ==
  IF response.kind = "status" THEN "HTTP error! status: 500" ELSE "Failed to fetch"

\* Mutant of setTrains: the error is kept
setTrainsKeepError(state, trains, t) ==
  [state EXCEPT !.trains = trains, !.lastUpdated = <<t>>]

setTrains(state, trains, t) ==
  [state EXCEPT !.trains = trains, !.lastUpdated = <<t>>, !.error = << >>]

setAlerts(state, alerts) == [state EXCEPT !.alerts = alerts]

setLoading(state, isLoading) == [state EXCEPT !.isLoading = isLoading]

setError(state, error) == [state EXCEPT !.error = error, !.isLoading = FALSE]

\* fetchTrains up to its await: setLoading(true) and the request is sent
fetchTrains ==
  /\ polls < MaxPolls
  /\ polls' = polls + 1
  /\ pending' = pending \cup {polls + 1}
  /\ trainStore' = setLoading(trainStore, TRUE)
  /\ UNCHANGED <<clientNow, completed, onlyGroups>>
  /\ UNCHANGED <<now, routePaths, sourceReady, filteredTrains, frameTrains,
                 trainAnimations, currentPositions, features, batches, ev, probe>>
  /\ UNCHANGED <<loopVars, serverVars>>

\* The effect of the hook: the initial fetch, and the interval is set
StartPolling ==
  /\ intervalRef = 0
  /\ polls = 0
  /\ intervalRef' = 1
  /\ intervals' = {1}
  /\ fetchTrains

\* The interval fires, POLL_INTERVAL after it fired last
IntervalFetch ==
  /\ intervalRef \in intervals
  /\ clientNow = polls * POLL_INTERVAL
  /\ fetchTrains
  /\ UNCHANGED <<intervalRef, intervals>>

\* The cleanup of the effect: clearInterval(intervalRef.current)
StopPolling ==
  /\ intervalRef # 0
  /\ intervalRef \in intervals
  /\ intervals' = intervals \ {intervalRef}
  /\ UNCHANGED <<trainStore, intervalRef, pending, polls, clientNow, completed,
                 onlyGroups>>
  /\ UNCHANGED <<now, routePaths, sourceReady, filteredTrains, frameTrains,
                 trainAnimations, currentPositions, features, batches, ev, probe>>
  /\ UNCHANGED <<loopVars, serverVars>>

\* Time passes in the browser; an interval that is due fires first.
ClientTick ==
  /\ polls > 0
  /\ ~(intervalRef \in intervals /\ polls < MaxPolls
         /\ clientNow = polls * POLL_INTERVAL)
  /\ \E d \in ClientSteps : clientNow + d <= MaxClock /\ clientNow' = clientNow + d
  /\ UNCHANGED <<trainStore, intervalRef, intervals, pending, polls, completed,
                 onlyGroups>>
  /\ UNCHANGED <<now, routePaths, sourceReady, filteredTrains, frameTrains,
                 trainAnimations, currentPositions, features, batches, ev, probe>>
  /\ UNCHANGED <<loopVars, serverVars>>

\* The rest of the k-th call of fetchTrains, once fetch has answered or
\* thrown: setTrains and setAlerts, or setError
Responded(k, response) ==
  /\ k \in pending
  /\ pending' = pending \ {k}
  /\ IF response.kind = "ok"
     THEN /\ trainStore' = setAlerts(setTrains(trainStore, response.trains, clientNow),
                                     response.alerts)
          /\ completed' = [poll |-> k, outcome |-> "ok", trains |-> response.trains,
                           alerts |-> response.alerts, wrote |-> k]
     ELSE /\ trainStore' = setError(trainStore, <<Message(response)>>)
          /\ completed' = [poll |-> k, outcome |-> response.kind, trains |-> << >>,
                           alerts |-> << >>, wrote |-> completed.wrote]
  /\ UNCHANGED <<intervalRef, intervals, polls, clientNow, onlyGroups>>
  /\ UNCHANGED <<now, routePaths, sourceReady, filteredTrains, frameTrains,
                 trainAnimations, currentPositions, features, batches, ev, probe>>
  /\ UNCHANGED <<loopVars, serverVars>>

PollNext ==
  \/ StartPolling
  \/ IntervalFetch
  \/ StopPolling
  \/ ClientTick
  \/ \E k \in 1..MaxPolls, response \in ApiResponses : Responded(k, response)

PollSpec == Init /\ [][PollNext]_vars

\* ------------------------------------------------------------ line filter
\* The filter of the store: toggleLine, showOnlyLine and showAllLines.
\* Groups of LINE_GROUPS, each with its routes
LINE_GROUPS ==
  [label \in {"A/C/E", "J/Z", "L", "S"} |->
     CASE label = "A/C/E" -> {"A", "C", "E"}
       [] label = "J/Z" -> {"J", "Z"}
       [] label = "L" -> {"L"}
       [] label = "S" -> {"S", "GS", "FS", "H", "SI"}]

\* The labels the actions are called with: the labels of the groups, a
\* route that is no label, and a string that is neither
Labels == DOMAIN LINE_GROUPS \cup {"A", "GS", "X"}

\* LINE_GROUPS[lineGroup] || [lineGroup]
RoutesOf(lineGroup) ==
  IF lineGroup \in DOMAIN LINE_GROUPS THEN LINE_GROUPS[lineGroup] ELSE {lineGroup}

\* new Set(routes)
NewSet(routes) == [null |-> FALSE, set |-> routes]

\* Mutant of Removed: the empty set is stored
RemovedKeepEmpty(newActive, routes) == NewSet(newActive \ routes)

\* activeLines after the routes are deleted: null if none is left
Removed(newActive, routes) ==
  IF newActive \ routes = {} THEN NoFilter ELSE NewSet(newActive \ routes)

\* Mutant of toggleLine: the routes are added, never removed
toggleLineAddOnly(activeLines, lineGroup) ==
  IF activeLines.null THEN NewSet(RoutesOf(lineGroup))
  ELSE NewSet(activeLines.set \cup RoutesOf(lineGroup))

\* toggleLine: the value it stores as activeLines
toggleLine(activeLines, lineGroup) ==
  IF activeLines.null THEN NewSet(RoutesOf(lineGroup))
  ELSE IF RoutesOf(lineGroup) \subseteq activeLines.set
       THEN Removed(activeLines.set, RoutesOf(lineGroup))
       ELSE NewSet(activeLines.set \cup RoutesOf(lineGroup))

\* showOnlyLine: the value it stores as activeLines
showOnlyLine(lineGroup) == NewSet(RoutesOf(lineGroup))

\* An action of the filter that stores value after a call with the label
StoreLines(value, label) ==
  /\ trainStore' = [trainStore EXCEPT !.activeLines = value]
  /\ onlyGroups' = (onlyGroups /\ label \in DOMAIN LINE_GROUPS)
  /\ UNCHANGED <<intervalRef, intervals, pending, polls, clientNow, completed>>
  /\ UNCHANGED <<now, routePaths, sourceReady, filteredTrains, frameTrains,
                 trainAnimations, currentPositions, features, batches, ev, probe>>
  /\ UNCHANGED <<loopVars, serverVars>>

ToggleLine(lineGroup) ==
  /\ lineGroup \in Labels
  /\ StoreLines(toggleLine(trainStore.activeLines, lineGroup), lineGroup)

ShowOnlyLine(lineGroup) ==
  /\ lineGroup \in Labels
  /\ StoreLines(showOnlyLine(lineGroup), lineGroup)

\* showAllLines: activeLines is null again, as in the store as created, so
\* the labels used before do not count any more
ShowAllLines ==
  /\ trainStore' = [trainStore EXCEPT !.activeLines = NoFilter]
  /\ onlyGroups' = TRUE
  /\ UNCHANGED <<intervalRef, intervals, pending, polls, clientNow, completed>>
  /\ UNCHANGED <<now, routePaths, sourceReady, filteredTrains, frameTrains,
                 trainAnimations, currentPositions, features, batches, ev, probe>>
  /\ UNCHANGED <<loopVars, serverVars>>

FilterNext ==
  \/ \E lineGroup \in Labels : ToggleLine(lineGroup)
  \/ \E lineGroup \in Labels : ShowOnlyLine(lineGroup)
  \/ ShowAllLines

FilterSpec == Init /\ [][FilterNext]_vars

\* ------------------------------------------------------------- properties
\* A step that is a reconciliation of a new batch
ReconcileStep == batches' = batches + 1

\* A step that is a frame that drew
FrameStep == ev'.op = "frame" /\ now' = now /\ batches' = batches

\* The entry of id in a store, <<>> when it has none
Entry(store, id) == IF id \in DOMAIN store THEN <<store[id]>> ELSE <<>>

\* The position displayed for id when the batch of the step is reconciled:
\* the live animation sampled now as a frame would, else the cached
\* position, else the snapshot itself
Shown(id) ==
  Displayed(id, filteredTrains'[id], trainAnimations, currentPositions, now)

\* The snapshot position of id in the batch of the step
Target(id) == filteredTrains'[id].pos

\* C1: every animation record of the store has a straight-line distance
\* from startPos to endPos of at most the snap threshold.
C1_AnimationWithinSnap ==
  \A id \in DOMAIN trainAnimations :
    Dist2(trainAnimations[id].startPos, trainAnimations[id].endPos)
      <= SnapThreshold * SnapThreshold

\* A reconciliation has stored an animation over more than half the snap
\* threshold.
C1_Witness ==
  /\ ev.op = "reconcile"
  /\ \E id \in DOMAIN trainAnimations :
       /\ ev.branch[id] = "animate"
       /\ 4 * Dist2(trainAnimations[id].startPos, trainAnimations[id].endPos)
            > SnapThreshold * SnapThreshold

\* C2: a reconciliation of a snapshot further than the snap threshold from
\* the displayed position leaves the entity without an animation record and
\* with the snapshot position in the cache.
C2_FarSnapshotTeleports ==
  [][ReconcileStep =>
       \A id \in DOMAIN filteredTrains' :
         Dist2(Shown(id), Target(id)) > SnapThreshold * SnapThreshold
           => /\ id \notin DOMAIN trainAnimations'
              /\ Entry(currentPositions', id) = <<Target(id)>>]_vars

\* C3: after a reconciliation, an entity that is absent from the batch is in
\* neither the animation store nor the position cache.
C3_AbsentEntityForgotten ==
  ev.op = "reconcile" =>
    \A id \in TrainIds \ DOMAIN filteredTrains :
      id \notin DOMAIN trainAnimations /\ id \notin DOMAIN currentPositions

\* C4: a frame produces no render record for an entity that the latest
\* batch omits.
C4_OmittedEntityNotRendered ==
  ev.op = "frame" =>
    \A id \in DOMAIN features : id \in DOMAIN filteredTrains

\* A frame was produced after a batch that dropped an entity which is still
\* in the position cache.
C4_Witness ==
  /\ ev.op = "frame"
  /\ \E id \in ev.gone :
       /\ id \in DOMAIN currentPositions
       /\ id \notin DOMAIN filteredTrains
       /\ id \notin DOMAIN features

\* C5: a reconciliation of a snapshot for an entity with a live animation,
\* whose position is further than epsilon and at most the snap threshold
\* from the displayed position, leaves a live animation that ends at the
\* snapshot position.
C5_NoQueueing ==
  [][ReconcileStep =>
       \A id \in (DOMAIN filteredTrains') \cap (DOMAIN trainAnimations) :
         /\ Dist2(Shown(id), Target(id)) > MoveEpsilon * MoveEpsilon
         /\ Dist2(Shown(id), Target(id)) <= SnapThreshold * SnapThreshold
         => /\ id \in DOMAIN trainAnimations'
            /\ trainAnimations'[id].endPos = Target(id)]_vars

\* C6: a reconciliation of a snapshot within epsilon of the displayed
\* position changes neither the animation record nor the cache entry of
\* the entity.
C6_NearSnapshotIsNoOp ==
  [][ReconcileStep =>
       \A id \in DOMAIN filteredTrains' :
         Dist2(Shown(id), Target(id)) <= MoveEpsilon * MoveEpsilon
           => /\ Entry(trainAnimations', id) = Entry(trainAnimations, id)
              /\ Entry(currentPositions', id) = Entry(currentPositions, id)]_vars

\* A reconciliation took neither branch of the distance test for an entity
\* that has a live animation and whose snapshot is not its cached position.
C6_Witness ==
  /\ ev.op = "reconcile"
  /\ \E id \in ev.live :
       /\ ev.branch[id] = "still"
       /\ id \in DOMAIN trainAnimations
       /\ Entry(currentPositions, id) # <<filteredTrains[id].pos>>

\* C7: the reconciliation of a snapshot that differs by less than epsilon
\* from the previous snapshot of the entity leaves an existing animation
\* record as it is.
C7_RepeatedSnapshotKeepsAnimation ==
  [][ReconcileStep =>
       \A id \in (DOMAIN filteredTrains') \cap (DOMAIN filteredTrains)
                   \cap (DOMAIN trainAnimations) :
         Dist2(filteredTrains[id].pos, Target(id)) < MoveEpsilon * MoveEpsilon
           => Entry(trainAnimations', id) = Entry(trainAnimations, id)]_vars

\* C8: when a reconciliation replaces a live animation, the new record
\* starts now, at the position a frame would draw for the old record now.
C8_ReanchoredAtDisplayedPosition ==
  [][ReconcileStep =>
       \A id \in (DOMAIN trainAnimations') \cap (DOMAIN trainAnimations) :
         trainAnimations'[id] # trainAnimations[id]
           => /\ trainAnimations'[id].startPos
                   = FramePosition(trainAnimations[id], now)
              /\ trainAnimations'[id].startTime = now]_vars

\* A reconciliation has replaced a live animation by one that starts at an
\* interpolated position.
C8_Witness ==
  /\ ev.op = "reconcile"
  /\ \E id \in ev.live :
       /\ ev.branch[id] = "animate"
       /\ trainAnimations[id].startPos \notin Points
       /\ trainAnimations[id].startTime > 0

\* C9: the reconciliation of an entity seen for the first time creates no
\* animation record, and the frame that follows draws the entity at the
\* position of its snapshot and caches that position.
C9_FirstSighting ==
  /\ ev.op = "reconcile" =>
       \A id \in ev.first : id \notin DOMAIN trainAnimations
  /\ ev.op = "frame" =>
       \A id \in ev.first :
         /\ id \notin DOMAIN trainAnimations
         /\ Entry(features, id) # <<>>
         /\ features[id].coordinates = filteredTrains[id].pos
         /\ Entry(currentPositions, id) = <<filteredTrains[id].pos>>

\* The frame after the first sighting of an entity has drawn it.
C9_Witness ==
  /\ ev.op = "frame"
  /\ \E id \in ev.first : id \in DOMAIN features

ProjectionDistance(pt, line) ==
  distance(pt, nearestPointOnLine(pt, line).point)

\* pt is closer to line than the proximity threshold
WithinProximity(pt, line) ==
  Dist2(pt, nearestPointOnLine(pt, line).point) < PathProximity * PathProximity

\* The polylines of cands with at least 2 points whose sum of the two
\* projection distances is the least
LeastScore(cands, p, q) ==
  LET valid == {k \in 1..Len(cands) : Len(cands[k]) >= 2}
      score == [k \in valid |-> ProjectionDistance(p, cands[k])
                                  + ProjectionDistance(q, cands[k])]
  IN {k \in valid : \A j \in valid : score[k] <= score[j]}

\* C11: findPathBetweenPoints returns a polyline of the route with at least
\* 2 points that minimizes the sum of the two projection distances, with the
\* projections of both points onto it, and both points are closer to it than
\* the proximity threshold; it returns null when the route has no such
\* polyline or a minimizing polyline is not that close to both points.
C11_ResolveSelectsNearest ==
  probe.fn = "resolved" =>
    LET cands == PathsOf(probe.geo, "L")
        best == LeastScore(cands, probe.p, probe.q)
        out == probe.out
    IN IF out.found
       THEN \E k \in best :
              /\ out.path = cands[k]
              /\ WithinProximity(probe.p, cands[k])
              /\ WithinProximity(probe.q, cands[k])
              /\ out.startIndex = nearestPointOnLine(probe.p, cands[k]).index
              /\ out.startT = nearestPointOnLine(probe.p, cands[k]).t
              /\ out.endIndex = nearestPointOnLine(probe.q, cands[k]).index
              /\ out.endT = nearestPointOnLine(probe.q, cands[k]).t
       ELSE \/ best = {}
            \/ \E k \in best : ~(/\ WithinProximity(probe.p, cands[k])
                                 /\ WithinProximity(probe.q, cands[k]))

\* A route with three polylines was resolved to one that is not the first,
\* for two different points.
C11_Witness ==
  /\ probe.fn = "resolved"
  /\ probe.out.found
  /\ probe.p # probe.q
  /\ Len(PathsOf(probe.geo, "L")) = 3
  /\ probe.out.path # PathsOf(probe.geo, "L")[1]
  /\ LeastScore(PathsOf(probe.geo, "L"), probe.p, probe.q) # {1}

\* The early return of the effect is taken for id in the batch of the step
Skipped(id) ==
  /\ id \in DOMAIN currentPositions
  /\ PositionUnchanged(currentPositions[id], Target(id))

\* The result of findPathBetweenPoints from the displayed position of id to
\* its snapshot in the batch of the step
Resolved(id) ==
  findPathBetweenPoints(routePaths, filteredTrains'[id].routeId,
                        Shown(id), Target(id))

\* C12: a reconciliation that does not skip a snapshot whose distance from
\* the start position is above epsilon and at most the snap threshold stores
\* a record that starts now at the start position and ends at the snapshot
\* position, with the resolved path and projections if the path resolves
\* and without a path if it does not.
C12_MovedSnapshotStoresAnimation ==
  [][ReconcileStep =>
       \A id \in DOMAIN filteredTrains' :
         /\ ~Skipped(id)
         /\ Dist2(Shown(id), Target(id)) > MoveEpsilon * MoveEpsilon
         /\ Dist2(Shown(id), Target(id)) <= SnapThreshold * SnapThreshold
         => /\ id \in DOMAIN trainAnimations'
            /\ trainAnimations'[id].startPos = Shown(id)
            /\ trainAnimations'[id].endPos = Target(id)
            /\ trainAnimations'[id].startTime = now
            /\ IF Resolved(id).found
               THEN /\ Len(trainAnimations'[id].path) >= 2
                    /\ trainAnimations'[id].path = Resolved(id).path
                    /\ trainAnimations'[id].startIndex = Resolved(id).startIndex
                    /\ trainAnimations'[id].startT = Resolved(id).startT
                    /\ trainAnimations'[id].endIndex = Resolved(id).endIndex
                    /\ trainAnimations'[id].endT = Resolved(id).endT
               ELSE trainAnimations'[id].path = << >>]_vars

\* A reconciliation with the geometry loaded has stored a record without a
\* path, for a snapshot off the track, replacing a record with a path.
C12_Witness ==
  /\ ev.op = "reconcile"
  /\ routePaths # << >>
  /\ \E id \in ev.live :
       /\ ev.branch[id] = "animate"
       /\ trainAnimations[id].path = << >>
       /\ trainAnimations[id].startTime = now
       /\ trainAnimations[id].endPos = filteredTrains[id].pos

\* C13: pointAlongLine between two projections onto a polyline returns the
\* point of the start projection at progress 0 and the point of the end
\* projection at progress 1.
C13_EndpointExactness ==
  probe.fn = "interpolated" =>
    /\ probe.out[<<0, 1>>] = probe.a.point
    /\ probe.out[<<1, 1>>] = probe.b.point

\* A path was interpolated backward over more than one segment, between
\* projections that are not vertices of the line.
C13_Witness ==
  /\ probe.fn = "interpolated"
  /\ probe.a.index > probe.b.index
  /\ probe.a.t \notin {<<0, 1>>, <<1, 1>>}
  /\ probe.b.t \notin {<<0, 1>>, <<1, 1>>}
  /\ probe.out[<<0, 1>>] # probe.out[<<1, 1>>]

\* The way along line from projection a to projection b: the point of a,
\* the vertices of the line passed on the way, the point of b
Waypoints(line, a, b) ==
  IF a.index <= b.index
  THEN <<a.point>>
         \o [k \in 1..(b.index - a.index) |-> Vertex(line, a.index + k)]
         \o <<b.point>>
  ELSE <<a.point>>
         \o [k \in 1..(a.index - b.index) |-> Vertex(line, a.index + 1 - k)]
         \o <<b.point>>

\* x is on the segment from u to v
OnSegment(x, u, v) ==
  /\ (v[1] - u[1]) * (x[2] - u[2]) = (v[2] - u[2]) * (x[1] - u[1])
  /\ Min(u[1], v[1]) <= x[1] /\ x[1] <= Max(u[1], v[1])
  /\ Min(u[2], v[2]) <= x[2] /\ x[2] <= Max(u[2], v[2])

\* The length of the way up to its k-th point
RECURSIVE LengthTo(_, _)
LengthTo(way, k) ==
  IF k <= 1 THEN 0 ELSE LengthTo(way, k - 1) + distance(way[k - 1], way[k])

\* The distances along the way at which x lies (none if x is off the way)
PathDistances(way, x) ==
  {LengthTo(way, k) + distance(way[k], x) :
     k \in {j \in 1..(Len(way) - 1) : OnSegment(x, way[j], way[j + 1])}}

\* C14: the point pointAlongLine returns at progress f lies on the way from
\* the start projection to the end projection, at the distance f * (length
\* of the way) from the start (up to the rounding of the grid), so that the
\* distance travelled does not decrease as progress increases.
C14_UniformAlongPath ==
  probe.fn = "interpolated" =>
    LET way == Waypoints(probe.line, probe.a, probe.b)
        total == LengthTo(way, Len(way))
    IN /\ \A f \in Fracs :
            \E d \in PathDistances(way, probe.out[f]) :
              Abs(d * f[2] - f[1] * total) <= 2 * f[2]
       /\ \A f, g \in Fracs :
            f[1] * g[2] < g[1] * f[2] =>
              \E d \in PathDistances(way, probe.out[f]) :
                \E e \in PathDistances(way, probe.out[g]) : d <= e + 2

\* A path over segments of different lengths was interpolated: half of the
\* way is not the middle vertex.
C14_Witness ==
  /\ probe.fn = "interpolated"
  /\ probe.line = DenseLine
  /\ probe.a.index = 0
  /\ probe.b.index = 2
  /\ probe.out[<<1, 2>>] \notin {DenseLine[k] : k \in 1..4}
  /\ probe.out[<<1, 4>>] # probe.out[<<1, 2>>]
  /\ probe.out[<<1, 2>>] # probe.out[<<7, 8>>]

\* The point s eighths of the way from u to v
Eighth(u, v, s) ==
  <<u[1] + ((v[1] - u[1]) * s) \div 8, u[2] + ((v[2] - u[2]) * s) \div 8>>

\* C15: nearestPointOnLine returns a segment index of the polyline, an
\* offset between 0 and 1 and the point of that segment at that offset; no
\* vertex and no other sampled point of any segment of the polyline is
\* closer to the input point.
C15_ProjectionIsNearest ==
  probe.fn = "projected" =>
    LET line == probe.line
        out == probe.out
    IN /\ out.index \in 0..(Len(line) - 2)
       /\ out.t[2] > 0 /\ 0 <= out.t[1] /\ out.t[1] <= out.t[2]
       /\ OnSegment(out.point, Vertex(line, out.index), Vertex(line, out.index + 1))
       /\ out.point = SegmentPoint(Vertex(line, out.index),
                                   Vertex(line, out.index + 1), out.t)
       /\ \A i \in 0..(Len(line) - 1) :
            Dist2(probe.p, out.point) <= Dist2(probe.p, Vertex(line, i))
       /\ \A i \in 0..(Len(line) - 2) : \A s \in 0..8 :
            Dist2(probe.p, out.point)
              <= Dist2(probe.p, Eighth(Vertex(line, i), Vertex(line, i + 1), s))

\* A point off the line was projected into the interior of a segment that
\* is not the first.
C15_Witness ==
  /\ probe.fn = "projected"
  /\ probe.out.index > 0
  /\ probe.out.t \notin {<<0, 1>>, <<1, 1>>}
  /\ probe.out.point # probe.p
  /\ Len(probe.line) = 4

\* The route of the train has a single polyline of 4 points, and the train
\* has an animation along it from vertex 0 to vertex 2 that started 2000 ms
\* ago.
HalfwayToVertex2(id) ==
  /\ id \in DOMAIN trainAnimations
  /\ frameTrains[id].routeId \in DOMAIN routePaths
  /\ Len(routePaths[frameTrains[id].routeId]) = 1
  /\ Len(routePaths[frameTrains[id].routeId][1]) = 4
  /\ trainAnimations[id].path = routePaths[frameTrains[id].routeId][1]
  /\ trainAnimations[id].startPos = Vertex(trainAnimations[id].path, 0)
  /\ trainAnimations[id].endPos = Vertex(trainAnimations[id].path, 2)
  /\ now = trainAnimations[id].startTime + 2000

\* x is on the segment from u to v and is neither u nor v
StrictlyBetween(x, u, v) == OnSegment(x, u, v) /\ x # u /\ x # v

\* The render record has the bearing b, rotated as the renderer expects
HasBearing(feature, b) ==
  feature.hasBearing /\ feature.bearing = MinusQuarter(b)

\* C16 as stated: the frame draws the train strictly between vertex 1 and
\* vertex 2, with the bearing of the segment from vertex 1 to vertex 2.
C16_HalfwayBetweenVertices ==
  [][FrameStep =>
       \A id \in DOMAIN frameTrains :
         HalfwayToVertex2(id) =>
           LET path == trainAnimations[id].path
           IN /\ StrictlyBetween(features'[id].coordinates,
                                 Vertex(path, 1), Vertex(path, 2))
              /\ HasBearing(features'[id],
                            calculateBearing(Vertex(path, 1), Vertex(path, 2)))]_vars

\* C16 (amended): the frame draws the train 7/8 of the way from vertex 0 over
\* vertex 1 to vertex 2, which is strictly between vertex 1 and vertex 2
\* when the first segment is shorter than 7 times the second; the bearing
\* is that of the segment of the path the train is on, reversed when the
\* stop id ends in S.
C16_HalfwayAlongPath ==
  [][FrameStep =>
       \A id \in DOMAIN frameTrains :
         HalfwayToVertex2(id) =>
           LET path == trainAnimations[id].path
               way == <<Vertex(path, 0), Vertex(path, 1), Vertex(path, 2)>>
               first == distance(Vertex(path, 0), Vertex(path, 1))
               second == distance(Vertex(path, 1), Vertex(path, 2))
               x == features'[id].coordinates
               south == getDirectionFromStopId(frameTrains[id].currentStopId) = "S"
           IN /\ \E d \in PathDistances(way, x) :
                   Abs(8 * d - 7 * (first + second)) <= 16
              /\ first < 7 * second =>
                   StrictlyBetween(x, Vertex(path, 1), Vertex(path, 2))
              /\ \E j \in 0..1 :
                   /\ OnSegment(x, Vertex(path, j), Vertex(path, j + 1))
                   /\ HasBearing(features'[id],
                        IF south
                        THEN Reverse(calculateBearing(Vertex(path, j), Vertex(path, j + 1)))
                        ELSE calculateBearing(Vertex(path, j), Vertex(path, j + 1)))]_vars

\* A frame has drawn a train that is 2000 ms into an animation from vertex
\* 0 to vertex 2 of the only polyline of its route, strictly between vertex
\* 1 and vertex 2.
C16_Witness ==
  /\ ev.op = "frame"
  /\ \E id \in DOMAIN features :
       /\ id \in DOMAIN frameTrains
       /\ HalfwayToVertex2(id)
       /\ ev.branch[id] = "moving"
       /\ StrictlyBetween(features[id].coordinates,
                          Vertex(trainAnimations[id].path, 1),
                          Vertex(trainAnimations[id].path, 2))
       /\ features[id].hasBearing

\* The bearing of segment j of path for a train with this stop id: from
\* vertex j to vertex j + 1, reversed when the stop id ends in S
HintedBearing(path, j, stopId) ==
  IF getDirectionFromStopId(stopId) = "S"
  THEN Reverse(calculateBearing(Vertex(path, j), Vertex(path, j + 1)))
  ELSE calculateBearing(Vertex(path, j), Vertex(path, j + 1))

\* The render record of the frame has the bearing of a segment of path that
\* the drawn position is on
BearingAlong(id, path) ==
  \E j \in 0..(Len(path) - 2) :
    /\ OnSegment(features'[id].coordinates, Vertex(path, j), Vertex(path, j + 1))
    /\ HasBearing(features'[id],
                  HintedBearing(path, j, frameTrains[id].currentStopId))

\* C17 as stated: in every frame that samples the position of a train along
\* the path of its animation, the bearing is that of the segment of the
\* path the position is on, reversed when the stop id ends in S.
C17_BearingFromAnimationPath ==
  [][FrameStep =>
       \A id \in (DOMAIN frameTrains) \cap (DOMAIN trainAnimations) :
         Len(trainAnimations[id].path) >= 2
           => BearingAlong(id, trainAnimations[id].path)]_vars

\* C17 (amended): the same for every frame that does not finalize the
\* animation (progress < 1).
C17_BearingFromLivePath ==
  [][FrameStep =>
       \A id \in (DOMAIN frameTrains) \cap (DOMAIN trainAnimations) :
         /\ Len(trainAnimations[id].path) >= 2
         /\ now - trainAnimations[id].startTime < ANIMATION_DURATION
         => BearingAlong(id, trainAnimations[id].path)]_vars

\* A frame has drawn a southbound train inside the second segment of the
\* path of its animation, with a bearing.
C17_Witness ==
  /\ ev.op = "frame"
  /\ \E id \in (DOMAIN features) \cap (DOMAIN trainAnimations) :
       /\ id \in DOMAIN frameTrains
       /\ ev.branch[id] = "moving"
       /\ Len(trainAnimations[id].path) >= 3
       /\ getDirectionFromStopId(frameTrains[id].currentStopId) = "S"
       /\ StrictlyBetween(features[id].coordinates,
                          Vertex(trainAnimations[id].path, 1),
                          Vertex(trainAnimations[id].path, 2))
       /\ features[id].hasBearing
       /\ features[id].bearing
            = MinusQuarter(HintedBearing(trainAnimations[id].path, 1,
                                         frameTrains[id].currentStopId))

\* The polylines of cands with at least 2 points that are closer to x than
\* the proximity threshold
Within(cands, x) ==
  {k \in 1..Len(cands) : Len(cands[k]) >= 2 /\ WithinProximity(x, cands[k])}

\* Those of them that are nearest to x
NearestWithin(cands, x) ==
  {k \in Within(cands, x) :
     \A j \in Within(cands, x) :
       Dist2(x, nearestPointOnLine(x, cands[k]).point)
         <= Dist2(x, nearestPointOnLine(x, cands[j]).point)}

\* C18: a frame that draws a train without a path-based animation and with
\* a direction hint gives it the bearing of the polyline of its route that
\* is nearest to the drawn position among those within the proximity
\* threshold, and no bearing if none is within the threshold.
C18_FallbackBearingFromNearest ==
  [][FrameStep =>
       \A id \in DOMAIN frameTrains :
         /\ id \in DOMAIN trainAnimations => trainAnimations[id].path = << >>
         /\ getDirectionFromStopId(frameTrains[id].currentStopId) # ""
         => LET x == features'[id].coordinates
                cands == PathsOf(routePaths, frameTrains[id].routeId)
            IN IF Within(cands, x) = {}
               THEN ~features'[id].hasBearing
               ELSE \E k \in NearestWithin(cands, x) :
                      HasBearing(features'[id],
                        HintedBearing(cands[k],
                                      nearestPointOnLine(x, cands[k]).index,
                                      frameTrains[id].currentStopId))]_vars

\* C19: a frame that draws a train that has no direction hint and no
\* path-based animation, or whose animation it finalizes, gives it no
\* bearing, whether or not its snapshot has a bearing of its own.
C19_NoBearingWithoutPathOrHint ==
  [][FrameStep =>
       \A id \in DOMAIN frameTrains :
         /\ getDirectionFromStopId(frameTrains[id].currentStopId) = ""
         /\ \/ id \notin DOMAIN trainAnimations
            \/ trainAnimations[id].path = << >>
            \/ now - trainAnimations[id].startTime >= ANIMATION_DURATION
         => ~features'[id].hasBearing]_vars

\* A frame has drawn, without a bearing, a train on the track whose
\* snapshot has a bearing of its own and no stop id.
C19_Witness ==
  /\ ev.op = "frame"
  /\ \E id \in DOMAIN features :
       /\ id \in DOMAIN frameTrains
       /\ ev.branch[id] = "static"
       /\ frameTrains[id].currentStopId = << >>
       /\ frameTrains[id].bearing # NoFeedBearing
       /\ Within(PathsOf(routePaths, frameTrains[id].routeId),
                 features[id].coordinates) # {}
       /\ ~features[id].hasBearing

\* C20: every frame produces a render record for exactly the trains of the
\* latest batch, each with a position: the sample of its animation, else
\* its cached position, else the position of its snapshot.
C20_FrameAlwaysRenders ==
  [][FrameStep =>
       /\ DOMAIN features' = DOMAIN filteredTrains
       /\ \A id \in DOMAIN filteredTrains :
            /\ features'[id].coordinates \in Int \X Int
            /\ features'[id].coordinates
                 = Displayed(id, filteredTrains[id], trainAnimations,
                             currentPositions, now)
            /\ features'[id].routeId = filteredTrains[id].routeId]_vars

\* A frame has drawn, without a bearing, a train that is part of the way
\* along a straight line because the geometry could not be loaded.
C20_Witness ==
  /\ ev.op = "frame"
  /\ routePaths = << >>
  /\ \E id \in DOMAIN features :
       /\ id \in DOMAIN filteredTrains
       /\ ev.branch[id] = "moving"
       /\ trainAnimations[id].path = << >>
       /\ features[id].coordinates \notin Points
       /\ ~features[id].hasBearing

\* The directions a polyline with at least 2 points gives to a train: the
\* rendered bearings of its segments, either way
Bearings(path) ==
  {MinusQuarter(SegmentBearing(path, j, d)) :
     j \in 0..(Len(path) - 2), d \in {"N", "S"}}

\* C21: a polyline with fewer than 2 points is skipped by path resolution
\* and by the bearing fallback: the path of an animation record is never
\* such a polyline, and a bearing that is rendered is the direction of a
\* segment of a polyline of the route that has at least 2 points.
C21_ShortPolylineSkipped ==
  /\ \A id \in DOMAIN trainAnimations :
       trainAnimations[id].path # <<>> => Len(trainAnimations[id].path) >= 2
  /\ \A id \in DOMAIN features :
       features[id].hasBearing =>
         \E k \in DOMAIN PathsOf(routePaths, features[id].routeId) :
           /\ Len(PathsOf(routePaths, features[id].routeId)[k]) >= 2
           /\ features[id].bearing
                \in Bearings(PathsOf(routePaths, features[id].routeId)[k])

\* C21 witness: the first polyline of the route has one point; the train
\* moves to that very point, a reconciliation resolved the track as its
\* path, and a frame rendered a bearing.
C21_Witness ==
  /\ routePaths = LinesData
  /\ Len(PathsOf(routePaths, "L")[1]) = 1
  /\ "X" \in DOMAIN trainAnimations
  /\ trainAnimations["X"].path = TrackL
  /\ trainAnimations["X"].endPos = PathsOf(routePaths, "L")[1][1]
  /\ "X" \in DOMAIN features
  /\ features["X"].hasBearing

\* The route has no geometry: the geometry file was not loaded, or it has
\* no polyline of the route
NoGeometry(routeId) ==
  routeId \notin DOMAIN routePaths \/ routePaths[routeId] = << >>

\* x is a point of the segment from u to v with its coordinates rounded
\* down to whole micro-degrees: each coordinate is less than one off
RoundedOnSegment(x, u, v) ==
  /\ Abs((v[1] - u[1]) * (x[2] - u[2]) - (v[2] - u[2]) * (x[1] - u[1]))
       < Abs(v[1] - u[1]) + Abs(v[2] - u[2]) \/ x = u
  /\ Min(u[1], v[1]) <= x[1] /\ x[1] <= Max(u[1], v[1])
  /\ Min(u[2], v[2]) <= x[2] /\ x[2] <= Max(u[2], v[2])

\* C22: for a train of a route without geometry, every step leaves its
\* animation record (if any) without a path and its render record (if any)
\* without a bearing; a reconciliation of a snapshot that moved, within the
\* snap threshold, stores a record, and a frame renders the train on the
\* straight segment from startPos to endPos of its record.
C22_NoGeometryStraightLine ==
  [][\A id \in DOMAIN filteredTrains' :
       NoGeometry(filteredTrains'[id].routeId) =>
         /\ id \in DOMAIN trainAnimations' => trainAnimations'[id].path = <<>>
         /\ id \in DOMAIN features' => ~features'[id].hasBearing
         /\ (ReconcileStep /\ Moved(Shown(id), Target(id))
               /\ ~TooFar(Shown(id), Target(id))
               /\ ev'.branch[id] # "unchanged")
              => /\ id \in DOMAIN trainAnimations'
                 /\ trainAnimations'[id].endPos = Target(id)
         /\ FrameStep =>
              /\ id \in DOMAIN features'
              /\ id \in DOMAIN trainAnimations =>
                   RoundedOnSegment(features'[id].coordinates,
                                    trainAnimations[id].startPos,
                                    trainAnimations[id].endPos)]_vars

\* C22 witness: the geometry file was not loaded; a northbound train has a
\* record from (0,0) to (0.012,0.003) and a frame has drawn it half-way in
\* time, between the two, without a bearing.
C22_Witness ==
  /\ routePaths = << >>
  /\ ev.op = "frame"
  /\ "X" \in DOMAIN ev.branch
  /\ ev.branch["X"] = "moving"
  /\ trainAnimations["X"].startPos = <<0, 0>>
  /\ trainAnimations["X"].endPos = <<12000, 3000>>
  /\ now - trainAnimations["X"].startTime = 2000
  /\ features["X"].direction = "N"
  /\ features["X"].coordinates = <<10500, 2625>>
  /\ ~features["X"].hasBearing

\* C23: after every step at most one frame callback is scheduled, and none
\* once the component is unmounted; a render with a new batch leaves
\* scheduled exactly the callback it registered, whose function is the new
\* animate and whose handle is in animationRef, and none of the callbacks
\* scheduled before.
C23_OneFrameCallback ==
  [][/\ Cardinality(scheduled') <= 1
     /\ ~mounted' => scheduled' = {}
     /\ ReconcileStep =>
          /\ scheduled' = {[handle |-> animationRef', animate |-> filteredTrains']}
          /\ Handles(scheduled) \cap Handles(scheduled') = {}]_vars

\* C23 witness: two batches were rendered while a callback was scheduled,
\* a frame was drawn, and then the component was unmounted.
C23_Witness ==
  /\ ~mounted
  /\ scheduled = {}
  /\ animationRef # 0
  /\ batches = 2
  /\ ev.op = "frame"
  /\ filteredTrains # << >>

\* The numerator of the fraction f over the denominator 8000, which every
\* eased value of a progress in twentieths has
Over8000(f) == f[1] * (8000 \div f[2])

\* C25: easeOutCubic maps 0 to 0 and 1 to 1, is non-decreasing on [0, 1],
\* and decelerates: over the second half of an interval it gains less than
\* over the first half; so from 0.5 to 0.9 it gains less than from 0.1 to
\* 0.5.
C25_EaseOutCubic ==
  probe.fn = "eased" =>
    /\ probe.a = <<0, 1>> => probe.out.a = <<0, 1>>
    /\ probe.b = <<1, 1>> => probe.out.b = <<1, 1>>
    /\ Over8000(probe.a) <= Over8000(probe.b)
         => Over8000(probe.out.a) <= Over8000(probe.out.b)
    /\ Over8000(probe.a) < Over8000(probe.b)
         => Over8000(probe.out.b) - Over8000(probe.out.mid)
              < Over8000(probe.out.mid) - Over8000(probe.out.a)

\* C25 witness: the eased values of 0.1, 0.5 and 0.9 are 0.271, 0.875 and
\* 0.999.
C25_Witness ==
  /\ probe.fn = "eased"
  /\ probe.a = <<1, 10>>
  /\ probe.b = <<9, 10>>
  /\ probe.out.a = <<271, 1000>>
  /\ probe.out.mid = <<7, 8>>
  /\ probe.out.b = <<999, 1000>>

\* A fraction between 0 and 1
InUnit(f) == f[2] > 0 /\ 0 <= f[1] /\ f[1] <= f[2]

\* C26: an animation record with a path has a path of at least 2 points,
\* a start and an end segment index from 0 to the path length minus 2, and
\* a start and an end offset from 0 to 1.
C26_PathRecordInRange ==
  \A id \in DOMAIN trainAnimations :
    LET anim == trainAnimations[id]
    IN anim.path # <<>> =>
         /\ Len(anim.path) >= 2
         /\ anim.startIndex \in 0..(Len(anim.path) - 2)
         /\ anim.endIndex \in 0..(Len(anim.path) - 2)
         /\ InUnit(anim.startT)
         /\ InUnit(anim.endT)

\* C26 witness: a record on the track from its first vertex (segment 0,
\* offset 0) to its last vertex (the last segment, offset 1)
C26_Witness ==
  /\ "X" \in DOMAIN trainAnimations
  /\ trainAnimations["X"].path = TrackL
  /\ trainAnimations["X"].startIndex = 0
  /\ trainAnimations["X"].startT = <<0, 1>>
  /\ trainAnimations["X"].endIndex = Len(TrackL) - 2
  /\ trainAnimations["X"].endT = <<1, 1>>

\* The projection a record keeps as a segment index and an offset
StoredProjection(path, index, t) ==
  [point |-> PointAt(path, index, t), index |-> index]

\* The way of a record with a path: from its start projection along the
\* vertices of the path to its end projection
WayOf(anim) ==
  Waypoints(anim.path,
            StoredProjection(anim.path, anim.startIndex, anim.startT),
            StoredProjection(anim.path, anim.endIndex, anim.endT))

\* C27: a frame renders a train whose record has a path at a point of a
\* segment of that path between the start projection and the end
\* projection, in path order.
C27_RenderedOnPath ==
  [][FrameStep =>
       \A id \in DOMAIN frameTrains :
         (id \in DOMAIN trainAnimations /\ trainAnimations[id].path # <<>>)
           => PathDistances(WayOf(trainAnimations[id]),
                            features'[id].coordinates) # {}]_vars

\* C27 witness: a train is drawn on the second segment of the track, past
\* the corner, on its way from the first vertex to the third.
C27_Witness ==
  /\ ev.op = "frame"
  /\ "X" \in DOMAIN ev.branch
  /\ ev.branch["X"] = "moving"
  /\ trainAnimations["X"].path = TrackL
  /\ trainAnimations["X"].startPos = <<0, 0>>
  /\ trainAnimations["X"].endPos = <<12000, 3000>>
  /\ features["X"].coordinates = <<10125, 3000>>

\* C28: the frame that finalizes an animation renders the train at the
\* endPos of its record, the position the static frames that follow render
\* from the cache.
C28_FinalFrameAtEndPos ==
  [][FrameStep =>
       \A id \in DOMAIN frameTrains :
         ev'.branch[id] = "finalize" =>
           /\ features'[id].coordinates = trainAnimations[id].endPos
           /\ features'[id].coordinates = currentPositions'[id]]_vars

\* C29: when some polyline of the route with at least 2 points has both
\* the start and the end within the proximity threshold, resolve returns a
\* path, and the path returned is such a polyline.
C29_ResolveFindsCloseCandidate ==
  probe.fn = "resolved" =>
    ((\E k \in DOMAIN PathsOf(probe.geo, "L") :
        /\ Len(PathsOf(probe.geo, "L")[k]) >= 2
        /\ WithinProximity(probe.p, PathsOf(probe.geo, "L")[k])
        /\ WithinProximity(probe.q, PathsOf(probe.geo, "L")[k]))
       => /\ probe.out.found
          /\ WithinProximity(probe.p, probe.out.path)
          /\ WithinProximity(probe.q, probe.out.path))

\* The first of the polylines of cands with the least score
FirstLeast(cands, p, q) ==
  CHOOSE k \in LeastScore(cands, p, q) :
    \A j \in LeastScore(cands, p, q) : k <= j

\* C29, amended: resolve looks only at the first polyline of the route
\* (with at least 2 points) that has the least sum of the two projection
\* distances: it returns that polyline when both the start and the end are
\* within the proximity threshold of it, and none otherwise, whatever the
\* distances to the other polylines.
C29_ResolveFindsLeastCandidate ==
  probe.fn = "resolved" =>
    IF LeastScore(PathsOf(probe.geo, "L"), probe.p, probe.q) = {}
    THEN ~probe.out.found
    ELSE LET least == PathsOf(probe.geo, "L")[
                        FirstLeast(PathsOf(probe.geo, "L"), probe.p, probe.q)]
         IN /\ probe.out.found <=> /\ WithinProximity(probe.p, least)
                                   /\ WithinProximity(probe.q, least)
            /\ probe.out.found => probe.out.path = least

\* C29 witness: the spur is within the threshold of both points, the dense
\* line has the smaller sum of distances but is too far from the end, and
\* resolve returned none.
C29_Witness ==
  /\ probe.fn = "resolved"
  /\ probe.geo = [r \in {"L"} |-> <<ShortSpur, DenseLine>>]
  /\ WithinProximity(probe.p, ShortSpur)
  /\ WithinProximity(probe.q, ShortSpur)
  /\ ~WithinProximity(probe.q, DenseLine)
  /\ FirstLeast(PathsOf(probe.geo, "L"), probe.p, probe.q) = 2
  /\ ~probe.out.found

\* C30: a call of getAllData returns from the cache exactly when the cached
\* list of trains is not empty and less than CACHE_DURATION has passed
\* since lastFetchTime; it then returns the cached trains and alerts,
\* contacts no feed and leaves the cache as it is; otherwise it sends the
\* requests to every feed and to the alerts, and when they have answered
\* cachedTrains and cachedAlerts are what they answered, lastFetchTime is
\* the time of the call, and that is returned.
C30_CacheWindow ==
  [][/\ served'.count = served.count + 1 =>
          /\ served'.op = "cached"
               <=> (cachedTrains # << >>
                      /\ dateNow - lastFetchTime < CACHE_DURATION)
          /\ served'.op = "cached" =>
               /\ served'.trains = cachedTrains
               /\ served'.alerts = cachedAlerts
               /\ served'.contacted = {}
               /\ UNCHANGED <<cachedTrains, cachedAlerts, lastFetchTime, calls>>
          /\ served'.op # "cached" =>
               /\ served'.op = "fetching"
               /\ served'.contacted
                    = {FEED_URLS[k] : k \in 1..Len(FEED_URLS)} \cup {ALERT_URL}
               /\ calls' = Append(calls, dateNow)
     /\ Len(calls') < Len(calls) =>
          /\ served'.op = "fetched"
          /\ cachedTrains' = served'.trains
          /\ cachedAlerts' = served'.alerts
          /\ lastFetchTime' = served'.now
          /\ \E k \in 1..Len(calls) : served'.now = calls[k]
          /\ \E results \in TrainResults : served'.trains = Flat(results, 1)]_vars

\* C30 witness: a call is answered from the cache 2500 ms after the fetch
\* that filled it, and an earlier call was made when the cache was exactly
\* CACHE_DURATION old.
C30_Witness ==
  /\ served.op = "cached"
  /\ served.trains = <<"A2", "L1">>
  /\ served.alerts = <<"delay">>
  /\ lastFetchTime = CACHE_DURATION
  /\ dateNow - lastFetchTime = 2500
  /\ served.count = 3

\* Train id has no animation record and is rendered within the no-op
\* epsilon of its reported position
Settled(id) ==
  /\ id \notin DOMAIN trainAnimations
  /\ id \in DOMAIN filteredTrains
  /\ id \in DOMAIN features
  /\ Dist2(features[id].coordinates, filteredTrains[id].pos)
       <= MoveEpsilon * MoveEpsilon

\* C24: a train that is reported at the same position in every batch,
\* within the snap threshold of where it is displayed, while time passes
\* and frames and reconciliations go on, eventually has no animation record
\* and is rendered at that position, and stays so.
C24_SettlesAtReported == <>[]Settled("X")

\* C31: a call of getAllData starts a round of requests to the feeds only
\* when no round was started before, or the latest one was started at least
\* CACHE_DURATION earlier, also when that round has not been answered yet.
C31_OneRoundPerWindow ==
  [][calls' = Append(calls, dateNow) =>
       \/ served.round = -1
       \/ dateNow - served.round >= CACHE_DURATION]_vars

\* The trains of the feeds that answered OK, in the order of the feeds
RECURSIVE OkTrains(_, _)
OkTrains(feeds, k) ==
  IF k > Len(feeds) THEN << >>
  ELSE (IF feeds[k].kind = "ok" THEN feeds[k].body ELSE << >>)
         \o OkTrains(feeds, k + 1)

\* C37: when the feeds and the alerts have answered a round of requests,
\* whichever of them failed, the trains returned and cached are those of the
\* feeds that answered OK, in order, the alerts are those of the alerts
\* response if it is OK and none otherwise, and the handler answers 200
\* with the data.
C37_FailedSourceIsEmpty ==
  [][Len(calls') < Len(calls) =>
       /\ served'.trains = OkTrains(served'.upstream.feeds, 1)
       /\ served'.alerts = IF served'.upstream.alerts.kind = "ok"
                           THEN served'.upstream.alerts.body ELSE << >>
       /\ cachedTrains' = served'.trains
       /\ cachedAlerts' = served'.alerts
       /\ reply' = [method |-> "GET", status |-> 200, body |-> "data"]]_vars

\* C37 witness: the first feed answered with a status that is not OK and
\* the request of the alerts threw; the trains of the second feed are
\* returned with no alerts and status 200.
C37_Witness ==
  /\ served.op = "fetched"
  /\ served.upstream.feeds[1].kind = "status"
  /\ served.upstream.feeds[2] = Ok(<<"L1">>)
  /\ served.upstream.alerts.kind = "throw"
  /\ served.trains = <<"L1">>
  /\ served.alerts = << >>
  /\ cachedTrains = <<"L1">>
  /\ reply.status = 200

\* C38: a request with method OPTIONS is answered 200 and one with a method
\* other than GET and OPTIONS 405, and neither calls getAllData, sends a
\* request to a feed or changes the cache; every step that calls
\* getAllData or changes the cache belongs to a GET, which awaits the feeds
\* or is answered 200 with the data (getAllData does not throw).
C38_HandlerMethods ==
  [][/\ (reply' # reply /\ reply'.method = "OPTIONS") =>
          /\ reply'.status = 200
          /\ reply'.body = "end"
          /\ UNCHANGED <<cachedTrains, cachedAlerts, lastFetchTime, calls, served>>
     /\ (reply' # reply /\ reply'.method \notin {"GET", "OPTIONS"}) =>
          /\ reply'.status = 405
          /\ reply'.body = "error"
          /\ UNCHANGED <<cachedTrains, cachedAlerts, lastFetchTime, calls, served>>
     /\ ~UNCHANGED <<cachedTrains, cachedAlerts, lastFetchTime, calls, served>> =>
          /\ reply'.method = "GET"
          /\ \/ reply'.status = 0 /\ served'.op = "fetching"
             \/ reply'.status = 200 /\ reply'.body = "data"
                  /\ served'.op \in {"cached", "fetched"}]_vars

\* C38 witness: after a GET has filled the cache, a POST is answered 405
\* and the cache is as the GET left it.
C38_Witness ==
  /\ reply = [method |-> "POST", status |-> 405, body |-> "error"]
  /\ served.op = "fetched"
  /\ cachedTrains = <<"A1", "L1">>
  /\ lastFetchTime = 2500

\* C32: the store's trains and alerts are those of the latest call of
\* fetchTrains, in the order the calls were started, that has ended with an
\* OK response: the call whose data the store holds never becomes an
\* earlier one.
C32_NewestPollWins == [][completed'.wrote >= completed.wrote]_vars

\* C33: isLoading is true only while a call of fetchTrains awaits its
\* response.
C33_LoadingOnlyInFlight == trainStore.isLoading => pending # {}

\* A step in which a call of fetchTrains ends
PollEnds == pending' # pending /\ pending' \subseteq pending

\* C34: when a call of fetchTrains ends, the store's error is not null
\* exactly if the call failed (fetch threw or the status was not OK); a
\* call that failed leaves trains, alerts and lastUpdated as they were; a
\* call that succeeded stores the trains and alerts of its response, sets
\* lastUpdated to the time and the error to null.
C34_ErrorIffFailed ==
  [][PollEnds =>
       /\ trainStore'.error # << >> <=> completed'.outcome # "ok"
       /\ completed'.outcome # "ok" =>
            /\ completed'.outcome \in {"status", "throw"}
            /\ trainStore'.trains = trainStore.trains
            /\ trainStore'.alerts = trainStore.alerts
            /\ trainStore'.lastUpdated = trainStore.lastUpdated
       /\ completed'.outcome = "ok" =>
            /\ trainStore'.trains = completed'.trains
            /\ trainStore'.alerts = completed'.alerts
            /\ trainStore'.lastUpdated = <<clientNow>>]_vars

\* C34 witness: the first call stored a train at time 0; the second call,
\* started at 5000, got status 500 at 7500: the error is set and the train
\* and lastUpdated of the first call are still there.
C34_Witness ==
  /\ completed.poll = 2
  /\ completed.outcome = "status"
  /\ clientNow = 7500
  /\ pending = {}
  /\ trainStore.error = <<"HTTP error! status: 500">>
  /\ trainStore.trains = <<"A1">>
  /\ trainStore.alerts = <<"delay">>
  /\ trainStore.lastUpdated = <<0>>

\* C35: activeLines is null or a set with at least one route; the empty
\* set is never stored.
C35_NeverEmptySet ==
  \/ trainStore.activeLines = NoFilter
  \/ ~trainStore.activeLines.null /\ trainStore.activeLines.set # {}

\* C35 witness: a label that is no group was toggled since the filter was
\* last reset by showAllLines, and a toggle has removed the last routes:
\* activeLines is null.
C35_Witness ==
  /\ ~onlyGroups
  /\ trainStore.activeLines = NoFilter

\* C36: in a state reached with labels of LINE_GROUPS only, toggleLine
\* called twice with the label of a group stores the value activeLines had.
C36_ToggleTwice ==
  onlyGroups =>
    \A g \in DOMAIN LINE_GROUPS :
      toggleLine(toggleLine(trainStore.activeLines, g), g) = trainStore.activeLines

\* C36 witness: two groups are active, set with their labels
C36_Witness ==
  /\ onlyGroups
  /\ trainStore.activeLines = NewSet({"A", "C", "E", "L"})

====
